---- MODULE Spec2Model ----
(***************************************************************************)
(* Verification model of the KYC dashboard's document visualizer           *)
(* (dashboard/src/components/DocumentUpload.tsx):                          *)
(*   - readExifOrientation: the JPEG/EXIF/TIFF orientation scanner, one    *)
(*     action per pass of its marker loop (specification SpecScan);        *)
(*   - orientationToDegrees, loadImageBuffer, getImageRotationDegrees;     *)
(*   - BoundingBoxVisualizer: its orientation effect and its draw effect   *)
(*     as asynchronous tasks (specification SpecViz);                      *)
(* and of the App component (part_004) around it: upload, polling, the    *)
(* history and the preview URL (specifications SpecApp and SpecPoll).     *)
(* Byte positions are 0-based as in the source; a buffer is a sequence of  *)
(* bytes 0..255, so the byte at position p is b[p + 1].                    *)
(***************************************************************************)
EXTENDS Integers, Sequences, FiniteSets, TLC

VARIABLES
  input,      \* SpecScan: the description the image's bytes were built from
  source,     \* SpecScan: the image source getImageRotationDegrees is called on
  promise,    \* SpecScan: "loading", "scanning", "resolved" or "rejected"
  buf,        \* SpecScan: the ArrayBuffer handed to readExifOrientation
  scan,       \* SpecScan: readExifOrientation's locals and its outcome
  degrees,    \* SpecScan: <<the rotation the promise resolved with>>, or <<>>
  mounted,          \* SpecViz: App renders a BoundingBoxVisualizer
  imageUrl,         \* SpecViz: its imageUrl prop, a source id or "none"
  data,             \* SpecViz: its data prop, a payload id or "none"
  highlightedField, \* SpecViz: its highlightedField prop, a field or "none"
  imageRotation,    \* SpecViz: its imageRotation state
  scans,            \* SpecViz: the detectOrientation calls started so far
  loads,            \* SpecViz: the Image objects created by the draw effect
  surface,          \* SpecViz: what the canvas shows
  lastScan,         \* SpecViz: index of the scan that settled last, or 0
  changes,          \* SpecViz: number of prop changes made so far
  img,              \* SpecDraw: the decoded Image, its natural width and height
  containerWidth,   \* SpecDraw: container.clientWidth when onload runs
  draw,             \* SpecDraw: the onload handler's locals and canvas calls
  clickLog,         \* SpecClick: the clicks made so far, oldest first
  app               \* SpecApp, SpecPoll: App, its timers, requests and server

scanVars == <<input, source, promise, buf, scan, degrees>>
vizVars == <<mounted, imageUrl, data, highlightedField, imageRotation, scans,
             loads, surface, lastScan, changes>>
drawVars == <<img, containerWidth, draw>>
clickVars == <<clickLog>>
appVars == <<app>>
vars == <<input, source, promise, buf, scan, degrees, mounted, imageUrl, data, highlightedField,
          imageRotation, scans, loads, surface, lastScan, changes, img,
          containerWidth, draw, clickLog, app>>
\* What the scanner's steps, and the visualizer's effects, leave alone.
besidesScan == <<vizVars, drawVars, clickVars, appVars>>
besidesViz == <<scanVars, drawVars, clickVars, appVars>>
besidesApp == <<scanVars, vizVars, drawVars, clickVars>>

-----------------------------------------------------------------------------
(* Bounds of the model.                                                    *)

\* Orientation values written into crafted entries range over 0..MaxValue.
MaxValue == 9
\* Padding bytes between the TIFF header and IFD0 range over 0..MaxPad.
MaxPad == 1
\* Raw buffers of every length 0..MaxRawLen over RawBytes are scanned.
MaxRawLen == 3
\* The visualizer's props change at most MaxChanges times.
MaxChanges == 3
\* Small image sides range over 1..MaxSide.
MaxSide == 9
\* Rotations range over the quarter turns -MaxTurns..MaxTurns.
MaxTurns == 5
\* A _bbox array alone in its payload has every length 0..MaxRectLen.
MaxRectLen == 6
\* At most MaxClicks clicks are made on the legend and the result rows.
MaxClicks == 3
\* SpecApp: files picked, clicks on the upload button, clicks on the history,
\* timer ticks, polls in flight at once, and the three kinds of user action
\* together.
MaxFiles == 2
MaxSubmits == 3
MaxDocumentClicks == 1
MaxTicks == 2
MaxPending == 1
MaxUserActions == 4
\* SpecPoll: the user's actions of each kind, and the polls in flight.
MaxPollActions == 1

-----------------------------------------------------------------------------
(* Program constants of readExifOrientation.                               *)

\* 0xffd8, the JPEG start-of-image marker
SOI == 65496
\* 0xffe1, the APP1 marker
APP1 == 65505
\* 0x45786966, "Exif"
EXIF_SIGNATURE == 1165519206
\* 0x4949, "II"
LITTLE_ENDIAN_MARK == 18761
\* 0x0112, the orientation tag
ORIENTATION_TAG == 274
\* the not-found sentinel
NOT_FOUND == -1

-----------------------------------------------------------------------------
(* orientationToDegrees (lines 420-431).                                   *)

OrientationToDegrees_Swapped(orientation) ==
  CASE orientation = 3 -> 180
    [] orientation = 6 -> 270
    [] orientation = 8 -> 90
    [] OTHER -> 0

OrientationToDegrees(orientation) ==
  CASE orientation = 3 -> 180
    [] orientation = 6 -> 90
    [] orientation = 8 -> 270
    [] OTHER -> 0

-----------------------------------------------------------------------------
(* DataView reads.                                                         *)

\* A read of w bytes at pos lies inside the buffer; DataView throws a
\* RangeError otherwise.
InRange(b, pos, w) == pos >= 0 /\ pos + w <= Len(b)

GetUint16(b, pos, little) ==
  IF little THEN b[pos + 1] + 256 * b[pos + 2]
            ELSE 256 * b[pos + 1] + b[pos + 2]

\* getUint32 returns an exact double; here the value is exact below
\* 127 * 2^24 and 2146435071 (2^31 - 2^20 - 1) from there on, so that it
\* fits the checker's integers. Every buffer of the model is far shorter
\* than that, and the code only compares the value with EXIF_SIGNATURE
\* and adds it to the cursor before a bounds check.
GetUint32(b, pos, little) ==
  LET b0 == IF little THEN b[pos + 4] ELSE b[pos + 1]
      b1 == IF little THEN b[pos + 3] ELSE b[pos + 2]
      b2 == IF little THEN b[pos + 2] ELSE b[pos + 3]
      b3 == IF little THEN b[pos + 1] ELSE b[pos + 4]
  IN  IF b0 >= 127 THEN 2146435071
      ELSE ((b0 * 256 + b1) * 256 + b2) * 256 + b3

-----------------------------------------------------------------------------
(* readExifOrientation.  The record s holds the function's position:       *)
(*   pc      "start" before the SOI check, "loop" at the head of the       *)
(*           while loop, "done" after return or throw                      *)
(*   offset  the cursor                                                    *)
(*   ret     the returned value                                            *)
(*   thrown  a read lay outside the buffer (RangeError)                    *)
(*   reads   every <<position, width>> read so far                         *)
(*   branch  what the last pass did                                        *)
(*   markerAt, segLen, tiffAt, ifdOffset, countAt, entryAt:                *)
(*           where the last pass read the marker, the declared segment     *)
(*           length, the TIFF header, the IFD0 offset field's value, the   *)
(*           entry count and the matching entry (-1: not read)             *)
(***************************************************************************)

ScanStart ==
  [pc |-> "start", offset |-> 0, ret |-> NOT_FOUND, thrown |-> FALSE,
   reads |-> {}, branch |-> "none", markerAt |-> -1, segLen |-> -1,
   tiffAt |-> -1, ifdOffset |-> -1, countAt |-> -1, entryAt |-> -1]

\* view.getUintN(pos): the read is recorded; out of range it throws.
Read(b, s, pos, w) ==
  IF InRange(b, pos, w)
  THEN [s EXCEPT !.reads = @ \cup {<<pos, w>>}]
  ELSE [s EXCEPT !.reads = @ \cup {<<pos, w>>}, !.thrown = TRUE,
                 !.pc = "done", !.branch = "throw"]

Return(s, v, why) == [s EXCEPT !.pc = "done", !.ret = v, !.branch = why]

\* line 456: view.byteLength < 2 || view.getUint16(0, false) !== 0xffd8
TooShortForSOI(b) == Len(b) < 2

\* The check with only the marker prefix 0xff compared.
CheckSOI_PrefixOnly(b, s) ==
  IF TooShortForSOI(b) THEN Return(s, NOT_FOUND, "not-jpeg")
  ELSE LET s1 == Read(b, s, 0, 2) IN
       IF s1.thrown THEN s1
       ELSE IF GetUint16(b, 0, FALSE) \div 256 # 255
       THEN Return(s1, NOT_FOUND, "not-jpeg")
       ELSE [s1 EXCEPT !.pc = "loop", !.offset = 2, !.branch = "soi"]

CheckSOI(b, s) ==
  IF TooShortForSOI(b) THEN Return(s, NOT_FOUND, "not-jpeg")
  ELSE LET s1 == Read(b, s, 0, 2) IN
       IF s1.thrown THEN s1
       ELSE IF GetUint16(b, 0, FALSE) # SOI THEN Return(s1, NOT_FOUND, "not-jpeg")
       ELSE [s1 EXCEPT !.pc = "loop", !.offset = 2, !.branch = "soi"]

\* line 464: offset + 4 > length
MarkerOutOfBounds(offset, length) == offset + 4 > length
\* line 472: offset + 2 > length
App1LengthOutOfBounds(offset, length) == offset + 2 > length
\* line 479: offset + 4 > length
SignatureOutOfBounds(offset, length) == offset + 4 > length
\* line 489: offset + 10 > length
TiffHeaderOutOfBounds(offset, length) == offset + 10 > length
\* line 497: offset + 2 > length
CountOutOfBounds(offset, length) == offset + 2 > length
\* The check with only the entry's tag bytes counted.
EntryOutOfBounds_TagOnly(tagOffset, length) == tagOffset + 2 > length
\* line 506: tagOffset + 12 > length
EntryOutOfBounds(tagOffset, length) == tagOffset + 12 > length
\* line 516: offset + 2 > length
SizeOutOfBounds(offset, length) == offset + 2 > length
\* line 513: (marker & 0xff00) !== 0xff00
NotAMarker(marker) == (marker \div 256) * 256 # 65280
\* line 495: offset += tiffOffset + 8
IfdPosition(offset, tiffOffset) == offset + tiffOffset + 8
\* line 484: offset += exifLength - 2
AfterNonExifApp1(offset, exifLength) == offset + exifLength - 2
\* The skip counted from the marker instead of from the length field.
AfterSegment_FromMarker(offset, size) == offset + size - 2
\* line 520: offset += size
AfterSegment(offset, size) == offset + size

\* lines 504-512: the for loop over the IFD0 entries, from entry i on.
\* s.offset is the position of entry 0.
RECURSIVE ScanEntries(_, _, _, _, _)
ScanEntries(b, s, i, tags, little) ==
  IF ~(i < tags) THEN [s EXCEPT !.branch = "ifd-no-match"]
  ELSE
    LET tagOffset == s.offset + i * 12 IN
    IF EntryOutOfBounds(tagOffset, Len(b)) THEN [s EXCEPT !.branch = "ifd-cut"]
    ELSE
      LET s1 == Read(b, s, tagOffset, 2) IN
      IF s1.thrown THEN s1
      ELSE IF GetUint16(b, tagOffset, little) = ORIENTATION_TAG
      THEN LET s2 == Read(b, s1, tagOffset + 8, 2) IN
           IF s2.thrown THEN s2
           ELSE Return([s2 EXCEPT !.entryAt = tagOffset],
                       GetUint16(b, tagOffset + 8, little), "found")
      ELSE ScanEntries(b, s1, i + 1, tags, little)

\* lines 488-512: after the signature matched; s.offset is at the signature.
ExifSegment(b, s) ==
  LET T == s.offset + 6 IN
  IF TiffHeaderOutOfBounds(T, Len(b)) THEN Return(s, NOT_FOUND, "break-tiff")
  ELSE
    LET s1 == Read(b, s, T, 2) IN
    IF s1.thrown THEN s1
    ELSE
      LET little == GetUint16(b, T, FALSE) = LITTLE_ENDIAN_MARK
          s2 == Read(b, s1, T + 4, 4)
      IN
      IF s2.thrown THEN s2
      ELSE
        LET tiffOffset == GetUint32(b, T + 4, little)
            ifd == IfdPosition(T, tiffOffset)
            s3 == [s2 EXCEPT !.tiffAt = T, !.ifdOffset = tiffOffset]
        IN
        IF CountOutOfBounds(ifd, Len(b)) THEN Return(s3, NOT_FOUND, "break-count")
        ELSE
          LET s4 == Read(b, s3, ifd, 2) IN
          IF s4.thrown THEN s4
          ELSE ScanEntries(b, [s4 EXCEPT !.offset = ifd + 2, !.countAt = ifd],
                           0, GetUint16(b, ifd, little), little)

\* lines 471-512: the marker is APP1; s.offset is past the marker.
App1Segment(b, s) ==
  IF App1LengthOutOfBounds(s.offset, Len(b)) THEN Return(s, NOT_FOUND, "break-app1")
  ELSE
    LET s1 == Read(b, s, s.offset, 2) IN
    IF s1.thrown THEN s1
    ELSE
      LET exifLength == GetUint16(b, s.offset, FALSE)
          sig == s.offset + 2
          s2 == [s1 EXCEPT !.offset = sig, !.segLen = exifLength]
      IN
      IF SignatureOutOfBounds(sig, Len(b)) THEN Return(s2, NOT_FOUND, "break-sig")
      ELSE
        LET s3 == Read(b, s2, sig, 4) IN
        IF s3.thrown THEN s3
        ELSE IF GetUint32(b, sig, FALSE) # EXIF_SIGNATURE
        THEN [s3 EXCEPT !.offset = AfterNonExifApp1(sig, exifLength),
                        !.branch = "app1-skip"]
        ELSE ExifSegment(b, s3)

\* lines 513-521: the marker is not APP1; s.offset is past the marker.
OtherSegment(b, s, marker) ==
  IF NotAMarker(marker) THEN Return(s, NOT_FOUND, "break-marker")
  ELSE IF SizeOutOfBounds(s.offset, Len(b)) THEN Return(s, NOT_FOUND, "break-size")
  ELSE
    LET s1 == Read(b, s, s.offset, 2) IN
    IF s1.thrown THEN s1
    ELSE LET size == GetUint16(b, s.offset, FALSE) IN
         [s1 EXCEPT !.offset = AfterSegment(s.offset, size), !.segLen = size,
                    !.branch = "segment-skip"]

\* lines 463-522: one pass of the while loop, from its condition on.
LoopPass(b, s) ==
  LET s0 == [s EXCEPT !.markerAt = -1, !.segLen = -1, !.tiffAt = -1,
                      !.ifdOffset = -1, !.countAt = -1, !.entryAt = -1]
  IN
  IF ~(s.offset < Len(b)) THEN Return(s0, NOT_FOUND, "exhausted")
  ELSE IF MarkerOutOfBounds(s.offset, Len(b)) THEN Return(s0, NOT_FOUND, "break-head")
  ELSE
    LET s1 == Read(b, s0, s.offset, 2) IN
    IF s1.thrown THEN s1
    ELSE
      LET marker == GetUint16(b, s.offset, FALSE)
          s2 == [s1 EXCEPT !.markerAt = s.offset, !.offset = s.offset + 2]
      IN
      IF marker = APP1 THEN App1Segment(b, s2) ELSE OtherSegment(b, s2, marker)

\* One step of the function from position s.
ScanStep(b, s) == IF s.pc = "start" THEN CheckSOI(b, s) ELSE LoopPass(b, s)

\* readExifOrientation(buffer) run to its end.
RECURSIVE RunScan(_, _)
RunScan(b, s) == IF s.pc = "done" THEN s ELSE RunScan(b, ScanStep(b, s))

ReadExifOrientation(b) == RunScan(b, ScanStart)

-----------------------------------------------------------------------------
(* The buffers scanned.  An input of kind "exif" is a JPEG: SOI, an        *)
(* optional leading segment, one APP1/EXIF segment and an optional tail    *)
(* inside that segment; then it is cut to a shorter length or has one byte *)
(* overwritten.  An input of kind "raw" is an arbitrary short buffer.      *)
(***************************************************************************)

Enc16(n, little) ==
  IF little THEN <<n % 256, n \div 256>> ELSE <<n \div 256, n % 256>>

Enc32(n, little) ==
  IF little THEN Enc16(n % 65536, TRUE) \o Enc16(n \div 65536, TRUE)
            ELSE Enc16(n \div 65536, FALSE) \o Enc16(n % 65536, FALSE)

Zeros(n) == [i \in 1..n |-> 0]

\* A marker segment: marker, big-endian length (payload + 2), payload.
Segment(marker, payload) ==
  Enc16(marker, FALSE) \o Enc16(Len(payload) + 2, FALSE) \o payload

\* A 12-byte IFD entry of type SHORT (3), count 1, with its value in the
\* first two bytes of the value slot (8 bytes into the entry).
IfdEntry(tag, value, little) ==
  Enc16(tag, little) \o Enc16(3, little) \o Enc32(1, little)
    \o Enc16(value, little) \o Enc16(0, little)

RECURSIVE IfdEntries(_, _)
IfdEntries(es, little) ==
  IF es = <<>> THEN <<>>
  ELSE IfdEntry(Head(es)[1], Head(es)[2], little) \o IfdEntries(Tail(es), little)

\* The <<tag, value>> lists of IFD0: 271 is Make, 256 ImageWidth, 257
\* ImageLength.
EntryList(kind, v) ==
  CASE kind = "orient"        -> << <<ORIENTATION_TAG, v>> >>
    [] kind = "make-orient"   -> << <<271, 5>>, <<ORIENTATION_TAG, v>> >>
    [] kind = "orient-orient" -> << <<ORIENTATION_TAG, v>>,
                                    <<ORIENTATION_TAG, (v % 8) + 1>> >>
    [] kind = "size"          -> << <<256, 274>>, <<257, 1>> >>
    [] OTHER                  -> << >>

HasOrientation(kind) == kind \in {"orient", "make-orient", "orient-orient"}

\* "Exif\0\0", then the TIFF header: byte order, 42, the IFD0 offset.
\* Layout "tiff" is the TIFF layout, IFD0 at (TIFF header start + offset);
\* layout "plus8" puts IFD0 8 bytes further than its offset field says.
ExifPayload(little, pad, layout, es, tail) ==
  <<69, 120, 105, 102, 0, 0>>
    \o (IF little THEN <<73, 73>> ELSE <<77, 77>>)
    \o Enc16(42, little)
    \o Enc32(IF layout = "tiff" THEN 8 + pad ELSE pad, little)
    \o Zeros(pad)
    \o Enc16(Len(es), little) \o IfdEntries(es, little) \o Enc32(0, little)
    \o tail

\* Bytes after IFD0 inside the EXIF segment, as an embedded thumbnail
\* stream is: four zero bytes, then an APP1/EXIF segment (big-endian,
\* layout "plus8") whose orientation entry holds 6.
ThumbTail ==
  <<0, 0, 0, 0>>
    \o Segment(APP1, ExifPayload(FALSE, 0, "plus8",
                                  << <<ORIENTATION_TAG, 6>> >>, <<>>))

\* The markers that stand alone, without a length field (ITU-T T.81
\* B.1.1.3): TEM 0xFF01, RST0..RST7 0xFFD0..0xFFD7, SOI 0xFFD8, EOI 0xFFD9.
StandaloneMarkers == {65281} \cup (65488..65497)

StandalonePre == {"tem", "rst0", "rst7", "eoi"}

StandaloneMarker(pre) ==
  CASE pre = "tem"  -> 65281
    [] pre = "rst0" -> 65488
    [] pre = "rst7" -> 65495
    [] OTHER        -> 65497

\* A standalone marker in front is followed by the bytes 00 02.
PreSegment(pre) ==
  CASE pre = "app0" -> Segment(65504, <<74, 70, 73, 70, 0>>)
    [] pre = "xmp"  -> Segment(APP1, <<104, 116, 116, 112, 58, 47>>)
    [] pre \in StandalonePre -> Enc16(StandaloneMarker(pre), FALSE) \o <<0, 2>>
    [] OTHER        -> <<>>

Jpeg(in) ==
  Enc16(SOI, FALSE) \o PreSegment(in.pre)
    \o Segment(APP1, ExifPayload(in.little, in.pad, in.layout,
                                 EntryList(in.entries, in.value),
                                 IF in.tail = "thumb" THEN ThumbTail ELSE <<>>))

BufferOf(in) ==
  IF in.kind = "raw" THEN in.raw
  ELSE LET full == Jpeg(in)
           cutTo == IF in.cut < 0 THEN full ELSE SubSeq(full, 1, in.cut)
       IN  IF in.pokeAt < 0 THEN cutTo
           ELSE [cutTo EXCEPT ![in.pokeAt + 1] = in.pokeByte]

PreKinds == {"none", "app0", "xmp"}
Layouts == {"tiff", "plus8"}
RawBytes == {0, 216, 225, 255}
PokeBytes == {0, 1, 225, 255}

ExifInput(pre, little, pad, layout, entries, value, tail, cut, pokeAt, pokeByte) ==
  [kind |-> "exif", pre |-> pre, little |-> little, pad |-> pad,
   layout |-> layout, entries |-> entries, value |-> value, tail |-> tail,
   cut |-> cut, pokeAt |-> pokeAt, pokeByte |-> pokeByte, raw |-> <<>>]

\* Whole JPEGs with an orientation entry, every value 0..MaxValue.
ValuedInputs ==
  { ExifInput(pre, little, pad, layout, entries, v, "none", -1, -1, 0) :
      pre \in PreKinds, little \in BOOLEAN, pad \in 0..MaxPad,
      layout \in Layouts, entries \in {"orient", "make-orient", "orient-orient"},
      v \in 0..MaxValue }

\* Whole JPEGs whose IFD0 has no orientation entry, with and without tail.
NoOrientationInputs ==
  { ExifInput(pre, little, pad, layout, entries, 0, tail, -1, -1, 0) :
      pre \in PreKinds, little \in BOOLEAN, pad \in 0..MaxPad,
      layout \in Layouts, entries \in {"empty", "size"},
      tail \in {"none", "thumb"} }

\* JPEGs cut at every length.
CutBase ==
  { ExifInput(pre, little, pad, layout, entries, 6, "none", -1, -1, 0) :
      pre \in PreKinds, little \in BOOLEAN, pad \in 0..MaxPad,
      layout \in Layouts, entries \in {"orient", "make-orient"} }

CutInputs ==
  UNION { { [in EXCEPT !.cut = n] : n \in 0..(Len(Jpeg(in)) - 1) } : in \in CutBase }

\* JPEGs with one byte overwritten.
PokeBase ==
  { ExifInput("none", little, pad, layout, "orient", 6, "none", -1, -1, 0) :
      little \in BOOLEAN, pad \in 0..MaxPad, layout \in Layouts }

PokeInputs ==
  UNION { { [in EXCEPT !.pokeAt = p, !.pokeByte = x] :
              p \in 0..(Len(Jpeg(in)) - 1), x \in PokeBytes } : in \in PokeBase }

\* JPEGs with one byte of the leading segment overwritten, its declared
\* length among them.
SegmentPokeBase ==
  { ExifInput(pre, FALSE, 0, layout, "orient", 6, "none", -1, -1, 0) :
      pre \in {"app0", "xmp"}, layout \in Layouts }

SegmentPokeInputs ==
  UNION { { [in EXCEPT !.pokeAt = p, !.pokeByte = x] :
              p \in 2..(1 + Len(PreSegment(in.pre))), x \in PokeBytes } :
          in \in SegmentPokeBase }

\* JPEGs with a standalone marker between SOI and the EXIF segment.
StandaloneInputs ==
  { ExifInput(pre, little, 0, layout, "orient", 6, "none", -1, -1, 0) :
      pre \in StandalonePre, little \in BOOLEAN, layout \in Layouts }

RawInputs ==
  { [ExifInput("none", FALSE, 0, "tiff", "empty", 0, "none", -1, -1, 0)
       EXCEPT !.kind = "raw", !.raw = r] :
      r \in UNION { [1..n -> RawBytes] : n \in 0..MaxRawLen } }

Inputs == ValuedInputs \cup NoOrientationInputs \cup CutInputs \cup PokeInputs
            \cup SegmentPokeInputs \cup StandaloneInputs \cup RawInputs

-----------------------------------------------------------------------------
(* Image sources.  A source is a data: URL or a fetchable URL; what the    *)
(* loader meets on it and whether the platform decoder can decode it are   *)
(* fixed per source.                                                       *)
(***************************************************************************)

\* scheme: "data" when the URL starts with "data:", else "http";
\* base64: whether a data URL has a "base64," part and whether atob accepts it;
\* fetch:  what fetch and the response do;
\* bytes:  the image's bytes; decodes: the <img> load succeeds.
ImageSource(scheme, base64, fetch, bytes, decodes) ==
  [scheme |-> scheme, base64 |-> base64, fetch |-> fetch, bytes |-> bytes,
   decodes |-> decodes]

\* The ways a source yields its bytes, and the ways it yields none.
LoadCases ==
  { <<"http", "absent", "ok">>, <<"data", "valid", "ok">>,
    <<"http", "absent", "status-error">>, <<"http", "absent", "throws">>,
    <<"http", "absent", "body-throws">>, <<"data", "absent", "ok">>,
    <<"data", "invalid", "ok">> }

YieldsBytes(lc) == lc \in { <<"http", "absent", "ok">>, <<"data", "valid", "ok">> }

\* The sources of SpecViz: the code finds orientation 6 in A's bytes and
\* 3 in B's; C answers the fetch with an error status and does not decode.
Bytes6 == BufferOf(ExifInput("none", FALSE, 0, "plus8", "orient", 6, "none", -1, -1, 0))
Bytes3 == BufferOf(ExifInput("app0", TRUE, 0, "plus8", "orient", 3, "none", -1, -1, 0))

SourceIds == {"A", "B", "C"}

Source(id) ==
  CASE id = "A" -> ImageSource("http", "absent", "ok", Bytes6, TRUE)
    [] id = "B" -> ImageSource("data", "valid", "ok", Bytes3, TRUE)
    [] OTHER    -> ImageSource("http", "absent", "status-error", Bytes6, FALSE)

Buffer(bytes) == [kind |-> "buffer", bytes |-> bytes]
Null == [kind |-> "null", bytes |-> <<>>]
Throws == [kind |-> "throw", bytes |-> <<>>]

\* lines 433-452: dataUrlToArrayBuffer; atob's throw is caught.
DataUrlToArrayBuffer(src) ==
  IF src.base64 = "absent" THEN Null
  ELSE LET decoded == IF src.base64 = "invalid" THEN Throws ELSE Buffer(src.bytes)
       IN  IF decoded.kind = "throw" THEN Null ELSE decoded

\* lines 529-536: the body of loadImageBuffer's try block.
TryLoadImageBuffer(src) ==
  IF src.scheme = "data" THEN DataUrlToArrayBuffer(src)
  ELSE IF src.fetch = "throws" THEN Throws
  ELSE IF src.fetch = "status-error" THEN Null
  ELSE IF src.fetch = "body-throws" THEN Throws
  ELSE Buffer(src.bytes)

\* loadImageBuffer without its catch block.
LoadImageBuffer_NoCatch(src) == TryLoadImageBuffer(src)

\* lines 527-541: loadImageBuffer; whatever the try block throws is caught.
LoadImageBuffer(src) ==
  LET r == TryLoadImageBuffer(src) IN IF r.kind = "throw" THEN Null ELSE r

Resolved(v) == [settled |-> "resolved", value |-> v]
Rejected == [settled |-> "rejected", value |-> 0]

\* lines 543-550: getImageRotationDegrees; an exception of an awaited call
\* or of the scan rejects the promise.
GetImageRotationDegrees(src) ==
  LET buffer == LoadImageBuffer(src) IN
  IF buffer.kind = "throw" THEN Rejected
  ELSE IF buffer.kind = "null" THEN Resolved(0)
  ELSE LET s == ReadExifOrientation(buffer.bytes) IN
       IF s.thrown THEN Rejected ELSE Resolved(OrientationToDegrees(s.ret))

\* The rotation getImageRotationDegrees derives from a source.
RotationOf(u) == GetImageRotationDegrees(Source(u)).value

-----------------------------------------------------------------------------
(* BoundingBoxVisualizer inside App.  App renders the component only while *)
(* displayImageSource is set (part_004 lines 300-308), so a source going   *)
(* away unmounts it and a later source mounts a new instance.              *)
(***************************************************************************)

DataIds == {"none", "doc"}
FieldIds == {"none", "full_name"}

\* What the canvas shows: the arguments of the last draw, url "none" for a
\* canvas nothing was drawn on.
Drawing(u, rotation, d, h) ==
  [url |-> u, rotation |-> rotation, data |-> d, highlight |-> h]
Blank == Drawing("none", 0, "none", "none")

\* lines 636-650: one run of the orientation effect: its cancelled flag and
\* where its detectOrientation call stands.
NewScan(u) == [url |-> u, cancelled |-> FALSE, status |-> "pending", value |-> 0]

\* lines 660-662, 752: one run of the draw effect: the Image with the props
\* and state its onload closure captured; alive while the refs it reads
\* (line 664) point at mounted elements.
NewLoad(u, rotation, d, h) ==
  [url |-> u, rotation |-> rotation, data |-> d, highlight |-> h,
   status |-> "pending", alive |-> TRUE]

\* lines 652-654: the effect's cleanup sets its cancelled flag.
CancelScans(ss) == [i \in DOMAIN ss |-> [ss[i] EXCEPT !.cancelled = TRUE]]

\* Unmounting clears containerRef.current and canvasRef.current.
DropRefs(ls) == [i \in DOMAIN ls |-> [ls[i] EXCEPT !.alive = FALSE]]

\* The result is applied whether or not the effect was cleaned up.
ScanApplies_Always(task) == TRUE
\* line 645: if (!cancelled)
ScanApplies(task) == ~task.cancelled

\* line 755: the component returns the placeholder.
PlaceholderShown == imageUrl = "none"

VizInit ==
  /\ mounted = FALSE
  /\ imageUrl = "none"
  /\ data = "none"
  /\ highlightedField = "none"
  /\ imageRotation = 0
  /\ scans = <<>>
  /\ loads = <<>>
  /\ surface = Blank
  /\ lastScan = 0
  /\ changes = 0

\* App gets a display image source while it had none: a new instance
\* mounts (useState(0), line 560) and both effects run.
Mount(u) ==
  /\ ~mounted
  /\ changes < MaxChanges
  /\ mounted' = TRUE
  /\ imageUrl' = u
  /\ imageRotation' = 0
  /\ surface' = Blank
  /\ scans' = Append(scans, NewScan(u))
  /\ loads' = Append(loads, NewLoad(u, 0, data, highlightedField))
  /\ changes' = changes + 1
  /\ UNCHANGED <<data, highlightedField, lastScan>>
  /\ UNCHANGED besidesViz

\* The imageUrl prop changes: the orientation effect is cleaned up and
\* runs again (lines 635-655), the draw effect runs again (lines 657-753).
ChangeImage(u) ==
  /\ mounted
  /\ u # imageUrl
  /\ changes < MaxChanges
  /\ imageUrl' = u
  /\ scans' = Append(CancelScans(scans), NewScan(u))
  /\ loads' = Append(loads, NewLoad(u, imageRotation, data, highlightedField))
  /\ changes' = changes + 1
  /\ UNCHANGED <<mounted, data, highlightedField, imageRotation, surface, lastScan>>
  /\ UNCHANGED besidesViz

\* App loses its display image source: the instance unmounts.
Unmount ==
  /\ mounted
  /\ changes < MaxChanges
  /\ mounted' = FALSE
  /\ imageUrl' = "none"
  /\ imageRotation' = 0
  /\ surface' = Blank
  /\ scans' = CancelScans(scans)
  /\ loads' = DropRefs(loads)
  /\ changes' = changes + 1
  /\ UNCHANGED <<data, highlightedField, lastScan>>
  /\ UNCHANGED besidesViz

\* The data prop changes: boundingBoxes is recomputed (line 633) and the
\* draw effect runs again.
SetData(d) ==
  /\ d # data
  /\ changes < MaxChanges
  /\ data' = d
  /\ loads' = IF mounted
              THEN Append(loads, NewLoad(imageUrl, imageRotation, d, highlightedField))
              ELSE loads
  /\ changes' = changes + 1
  /\ UNCHANGED <<mounted, imageUrl, highlightedField, imageRotation, scans,
                 surface, lastScan>>
  /\ UNCHANGED besidesViz

\* The highlightedField prop changes: the draw effect runs again.
SetHighlight(h) ==
  /\ h # highlightedField
  /\ changes < MaxChanges
  /\ highlightedField' = h
  /\ loads' = IF mounted
              THEN Append(loads, NewLoad(imageUrl, imageRotation, data, h))
              ELSE loads
  /\ changes' = changes + 1
  /\ UNCHANGED <<mounted, imageUrl, data, imageRotation, scans, surface, lastScan>>
  /\ UNCHANGED besidesViz

\* lines 643-648: a detectOrientation call's await settles.  An applied
\* result that changes imageRotation runs the draw effect again.
ScanSettles(i) ==
  /\ scans[i].status = "pending"
  /\ LET r == GetImageRotationDegrees(Source(scans[i].url)) IN
     IF r.settled = "rejected"
     THEN /\ scans' = [scans EXCEPT ![i].status = "rejected"]
          /\ UNCHANGED <<imageRotation, loads>>
     ELSE IF ScanApplies(scans[i])
     THEN /\ scans' = [scans EXCEPT ![i].status = "applied", ![i].value = r.value]
          /\ imageRotation' = r.value
          /\ loads' = IF r.value # imageRotation
                      THEN Append(loads, NewLoad(imageUrl, r.value, data,
                                                 highlightedField))
                      ELSE loads
     ELSE /\ scans' = [scans EXCEPT ![i].status = "discarded", ![i].value = r.value]
          /\ UNCHANGED <<imageRotation, loads>>
  /\ lastScan' = i
  /\ UNCHANGED <<mounted, imageUrl, data, highlightedField, surface, changes>>
  /\ UNCHANGED besidesViz

\* lines 662-750: an Image's onload runs; it draws with what its closure
\* captured unless the refs are gone (line 664).
ImageLoads(i) ==
  /\ loads[i].status = "pending"
  /\ Source(loads[i].url).decodes
  /\ loads' = [loads EXCEPT ![i].status = "loaded"]
  /\ surface' = IF loads[i].alive
                THEN Drawing(loads[i].url, loads[i].rotation, loads[i].data,
                             loads[i].highlight)
                ELSE surface
  /\ UNCHANGED <<mounted, imageUrl, data, highlightedField, imageRotation, scans,
                 lastScan, changes>>
  /\ UNCHANGED besidesViz

\* An Image fails to decode: the effect sets no onerror, nothing runs.
ImageFails(i) ==
  /\ loads[i].status = "pending"
  /\ ~Source(loads[i].url).decodes
  /\ loads' = [loads EXCEPT ![i].status = "failed"]
  /\ UNCHANGED <<mounted, imageUrl, data, highlightedField, imageRotation, scans,
                 surface, lastScan, changes>>
  /\ UNCHANGED besidesViz

-----------------------------------------------------------------------------
(* JavaScript Numbers.  The onload handler computes with IEEE-754 doubles. *)
(* A finite double is held exactly, as (-1)^neg * m * 2^e with m a natural *)
(* number, odd or zero, written in limbs of 14 bits, least significant     *)
(* first.  Every operation computes the exact result and rounds it to 53   *)
(* significant bits, ties to even.  The sizes of the model keep exponents  *)
(* far from the subnormal and the overflow range.                          *)
(***************************************************************************)

Radix == 2^14

RECURSIVE Limbs(_)
Limbs(n) == IF n = 0 THEN <<>> ELSE <<n % Radix>> \o Limbs(n \div Radix)

\* Without its high zero limbs.
RECURSIVE TrimLimbs(_)
TrimLimbs(m) ==
  IF m # <<>> /\ m[Len(m)] = 0 THEN TrimLimbs(SubSeq(m, 1, Len(m) - 1)) ELSE m

Limb(m, i) == IF i <= Len(m) THEN m[i] ELSE 0

\* -1, 0 or 1 as a < b, a = b or a > b, comparing from limb i downward.
RECURSIVE CmpLimbs(_, _, _)
CmpLimbs(a, b, i) ==
  IF i = 0 THEN 0
  ELSE IF Limb(a, i) # Limb(b, i) THEN (IF Limb(a, i) > Limb(b, i) THEN 1 ELSE -1)
  ELSE CmpLimbs(a, b, i - 1)

RECURSIVE AddLimbs(_, _, _, _)
AddLimbs(a, b, i, carry) ==
  IF i > Len(a) /\ i > Len(b) THEN Limbs(carry)
  ELSE LET t == Limb(a, i) + Limb(b, i) + carry
       IN  <<t % Radix>> \o AddLimbs(a, b, i + 1, t \div Radix)

\* a - b for a >= b.
RECURSIVE SubLimbs(_, _, _, _)
SubLimbs(a, b, i, borrow) ==
  IF i > Len(a) THEN <<>>
  ELSE LET t == Limb(a, i) - Limb(b, i) - borrow
       IN  <<(t + Radix) % Radix>> \o SubLimbs(a, b, i + 1, IF t < 0 THEN 1 ELSE 0)

\* a * n for 0 <= n < 2^16.
RECURSIVE MulSmall(_, _, _, _)
MulSmall(a, n, i, carry) ==
  IF i > Len(a) THEN Limbs(carry)
  ELSE LET t == a[i] * n + carry
       IN  <<t % Radix>> \o MulSmall(a, n, i + 1, t \div Radix)

RECURSIVE MulLimbs(_, _)
MulLimbs(a, b) ==
  IF b = <<>> THEN <<>>
  ELSE AddLimbs(MulSmall(a, b[1], 1, 0), <<0>> \o MulLimbs(a, Tail(b)), 1, 0)

\* Limbs i..1 of a divided by n, 0 < n < 2^16; r the remainder so far.
RECURSIVE DivSmall(_, _, _, _)
DivSmall(a, n, i, r) ==
  IF i = 0 THEN [q |-> <<>>, r |-> r]
  ELSE LET t == r * Radix + a[i]
           rest == DivSmall(a, n, i - 1, t % n)
       IN  [q |-> Append(rest.q, t \div n), r |-> rest.r]

\* The number of bits of n, and of the limbs m.
RECURSIVE Width(_)
Width(n) == IF n = 0 THEN 0 ELSE 1 + Width(n \div 2)

BitLen(m) == IF m = <<>> THEN 0 ELSE 14 * (Len(m) - 1) + Width(m[Len(m)])

ShiftLeft(m, k) == [i \in 1..(k \div 14) |-> 0] \o MulSmall(m, 2^(k % 14), 1, 0)

\* floor(m / 2^d), and whether bits were lost.
ShiftRight(m, d) ==
  LET w == d \div 14
      dv == DivSmall(m, 2^(d % 14), Len(m), 0)
  IN  [q |-> TrimLimbs(SubSeq(dv.q, w + 1, Len(dv.q))),
       lost |-> dv.r # 0 \/ \E i \in 1..w : Limb(dv.q, i) # 0]

\* The number (-1)^neg * m * 2^e in its one representation.
RECURSIVE Canon(_, _, _)
Canon(neg, m, e) ==
  LET t == TrimLimbs(m) IN
  IF t = <<>> THEN [neg |-> FALSE, m |-> <<>>, e |-> 0]
  ELSE IF t[1] = 0 THEN Canon(neg, Tail(t), e + 14)
  ELSE IF t[1] % 2 = 0 THEN Canon(neg, DivSmall(t, 2, Len(t), 0).q, e + 1)
  ELSE [neg |-> neg, m |-> t, e |-> e]

\* Rounding to the nearest double, ties to even; sticky: the exact value
\* lies above m * 2^e by less than 2^e.
Round(neg, m, e, sticky) ==
  LET t == TrimLimbs(m)
      d == BitLen(t) - 53
  IN  IF d <= 0 THEN Canon(neg, t, e)
      ELSE LET low == ShiftRight(t, d - 1)
               kept == ShiftRight(low.q, 1).q
               up == low.q[1] % 2 = 1 /\ (sticky \/ low.lost \/ kept[1] % 2 = 1)
           IN  Canon(neg, IF up THEN AddLimbs(kept, <<1>>, 1, 0) ELSE kept, e + d)

\* The integer n as a Number.
Num(n) == Canon(n < 0, Limbs(IF n < 0 THEN 0 - n ELSE n), 0)

Negate(x) == IF x.m = <<>> THEN x ELSE [x EXCEPT !.neg = ~@]

Sign(x) == IF x.m = <<>> THEN 0 ELSE IF x.neg THEN -1 ELSE 1

\* Exact product and sum, before rounding.
ExactTimes(x, y) == Canon(x.neg # y.neg, MulLimbs(x.m, y.m), x.e + y.e)

ExactPlus(x, y) ==
  LET e == IF x.e < y.e THEN x.e ELSE y.e
      mx == TrimLimbs(ShiftLeft(x.m, x.e - e))
      my == TrimLimbs(ShiftLeft(y.m, y.e - e))
      n == IF Len(mx) > Len(my) THEN Len(mx) ELSE Len(my)
  IN  IF x.neg = y.neg THEN Canon(x.neg, AddLimbs(mx, my, 1, 0), e)
      ELSE IF CmpLimbs(mx, my, n) >= 0 THEN Canon(x.neg, SubLimbs(mx, my, 1, 0), e)
      ELSE Canon(y.neg, SubLimbs(my, mx, 1, 0), e)

\* x <= y, exactly.
LessEq(x, y) == Sign(ExactPlus(x, Negate(y))) <= 0

\* The operators *, + and - of the source.
Times(x, y) == LET p == ExactTimes(x, y) IN Round(p.neg, p.m, p.e, FALSE)

Plus(x, y) == LET p == ExactPlus(x, y) IN Round(p.neg, p.m, p.e, FALSE)

Minus(x, y) == Plus(x, Negate(y))

\* x / n for an integer 0 < n < 2^16, as the handler divides by image
\* sides and by 2: at least 55 quotient bits, the remainder as sticky bit.
Over(x, n) ==
  LET k == IF 55 + Width(n) > BitLen(x.m) THEN 55 + Width(n) - BitLen(x.m) ELSE 0
      a == ShiftLeft(x.m, k)
      dv == DivSmall(a, n, Len(a), 0)
  IN  Round(x.neg, dv.q, x.e - k, dv.r # 0)

\* The largest d in lo..(hi - 1) with d * b <= cur, given lo * b <= cur
\* and cur < hi * b.
RECURSIVE QuotientLimb(_, _, _, _)
QuotientLimb(cur, b, lo, hi) ==
  IF hi - lo <= 1 THEN lo
  ELSE LET mid == (lo + hi) \div 2
           p == MulSmall(b, mid, 1, 0)
           n == IF Len(p) > Len(cur) THEN Len(p) ELSE Len(cur)
       IN  IF CmpLimbs(p, cur, n) <= 0 THEN QuotientLimb(cur, b, mid, hi)
           ELSE QuotientLimb(cur, b, lo, mid)

\* Limbs i..1 of a divided by the limbs b # <<>>; rem the remainder so far.
RECURSIVE DivLimbs(_, _, _, _)
DivLimbs(a, b, i, rem) ==
  IF i = 0 THEN [q |-> <<>>, r |-> rem]
  ELSE LET cur == TrimLimbs(<<a[i]>> \o rem)
           d == QuotientLimb(cur, b, 0, Radix)
           left == TrimLimbs(SubLimbs(cur, MulSmall(b, d, 1, 0), 1, 0))
           rest == DivLimbs(a, b, i - 1, left)
       IN  [q |-> Append(rest.q, d), r |-> rest.r]

\* The operator / of the source for a divisor y # 0: at least 55 quotient
\* bits, the remainder as sticky bit.
Divide(x, y) ==
  LET k == IF 55 + BitLen(y.m) > BitLen(x.m) THEN 55 + BitLen(y.m) - BitLen(x.m) ELSE 0
      a == ShiftLeft(x.m, k)
      dv == DivLimbs(a, y.m, Len(a), <<>>)
  IN  Round(x.neg # y.neg, dv.q, x.e - k - y.e, dv.r # <<>>)

\* The integer a WebIDL unsigned long attribute keeps of x >= 0.
Trunc(x) ==
  LET t == IF x.e >= 0 THEN ShiftLeft(x.m, x.e) ELSE ShiftRight(x.m, 0 - x.e).q
  IN  Limb(t, 1) + Radix * Limb(t, 2)

-----------------------------------------------------------------------------
(* boundingBoxes and the draw effect's onload handler.                     *)

\* The fields, in the order lines 568-630 test them.
FIELDS ==
  <<"full_name", "date_of_birth", "document_number", "expiry_date",
    "issue_date", "nationality", "address">>

FieldSet == { FIELDS[i] : i \in 1..Len(FIELDS) }

\* A field's <field>_bbox: missing, or an array of numbers.
NoBox == [has |-> FALSE, rect |-> <<>>]
Box(rect) == [has |-> TRUE, rect |-> rect]

\* The data prop: undefined, or a DocumentData with, per field, whether its
\* text is set and its _bbox.
NoData == [present |-> FALSE, text |-> [f \in FieldSet |-> FALSE],
           bbox |-> [f \in FieldSet |-> NoBox]]
DocumentData(text, bbox) == [present |-> TRUE, text |-> text, bbox |-> bbox]

\* The test with the array's length left out.
HasBox_AnyLength(d, f) == d.bbox[f].has
\* lines 568, 577, ..., 622: data.<f>_bbox && data.<f>_bbox.length === 4
HasBox(d, f) == d.bbox[f].has /\ Len(d.bbox[f].rect) = 4

\* lines 566-632: the seven tests in order, each pushing one entry.
RECURSIVE BoxesFrom(_, _)
BoxesFrom(d, i) ==
  IF i > Len(FIELDS) THEN <<>>
  ELSE (IF HasBox(d, FIELDS[i])
        THEN << [field |-> FIELDS[i], bbox |-> d.bbox[FIELDS[i]].rect] >>
        ELSE <<>>) \o BoxesFrom(d, i + 1)

\* lines 563-633: boundingBoxes.
BoundingBoxes(d) == IF ~d.present THEN <<>> ELSE BoxesFrom(d, 1)

\* line 667
maxHeight == 600

\* JavaScript's %: the result has the sign of the dividend.
JsRem(a, n) == IF a < 0 THEN 0 - ((0 - a) % n) ELSE a % n

\* The remainder alone, without the wrap into [0, 360).
NormaliseRotation_NoWrap(rotation) == JsRem(rotation, 360)
\* line 669: ((imageRotation % 360) + 360) % 360
NormaliseRotation(rotation) == JsRem(JsRem(rotation, 360) + 360, 360)

\* line 670: rotationNormalsed % 180 === 0
IsUpright(rotationNormalsed) == JsRem(rotationNormalsed, 180) = 0

\* lines 671-672
RotatedWidth(im, upright) == IF upright THEN im.width ELSE im.height
RotatedHeight(im, upright) == IF upright THEN im.height ELSE im.width

\* The comparison with >= for >.
FitsWidth_Strict(width, rotatedWidth, rotatedHeight) ==
  LET h == Times(Num(width), Over(Num(rotatedHeight), rotatedWidth))
  IN  LessEq(h, Num(maxHeight)) /\ h # Num(maxHeight)
\* lines 675, 677: containerWidth * (rotatedHeight / rotatedWidth) is not
\* above maxHeight.
FitsWidth(width, rotatedWidth, rotatedHeight) ==
  LessEq(Times(Num(width), Over(Num(rotatedHeight), rotatedWidth)), Num(maxHeight))

\* The height fit with the width left at the container's.
DisplaySize_WidthKept(width, rotatedWidth, rotatedHeight) ==
  IF FitsWidth(width, rotatedWidth, rotatedHeight)
  THEN [fit |-> "width", width |-> Num(width),
        height |-> Times(Num(width), Over(Num(rotatedHeight), rotatedWidth))]
  ELSE [fit |-> "height", width |-> Num(width), height |-> Num(maxHeight)]
\* lines 674-680: displayWidth and displayHeight.
DisplaySize(width, rotatedWidth, rotatedHeight) ==
  IF FitsWidth(width, rotatedWidth, rotatedHeight)
  THEN [fit |-> "width", width |-> Num(width),
        height |-> Times(Num(width), Over(Num(rotatedHeight), rotatedWidth))]
  ELSE [fit |-> "height",
        width |-> Times(Num(maxHeight), Over(Num(rotatedWidth), rotatedHeight)),
        height |-> Num(maxHeight)]

\* line 682
ScaleFactor(displayWidth, rotatedWidth) == Over(displayWidth, rotatedWidth)

\* The corner left in natural-image coordinates.
BoxOrigin_Uncentered(coordinate, side) == Num(coordinate)
\* lines 706-707: x1 - img.width / 2, y1 - img.height / 2
BoxOrigin(coordinate, side) == Minus(Num(coordinate), Over(Num(side), 2))

\* The handler's locals and its canvas calls.  canvas is the canvas
\* element's size, 300 x 150 until the handler sets it; transform is what
\* lines 693-695 put on the context (the rotation in degrees); ops are the
\* drawImage call and, per box, the rect/stroke/fillRect calls, in order.
\* The label calls (lines 721-746) depend on measureText and are left out.
DrawStart ==
  [pc |-> "loading", rotationNormalsed |-> 0, rotatedWidth |-> 0,
   rotatedHeight |-> 0, fit |-> "none", displayWidth |-> Num(0),
   displayHeight |-> Num(0), scaleFactor |-> Num(0), canvas |-> <<300, 150>>,
   transform |-> [x |-> Num(0), y |-> Num(0), rotate |-> 0, scale |-> Num(1)],
   ops |-> <<>>]

\* lines 666-686
Measure(d, im, width, rotation) ==
  LET rn == NormaliseRotation(rotation)
      rw == RotatedWidth(im, IsUpright(rn))
      rh == RotatedHeight(im, IsUpright(rn))
      size == DisplaySize(width, rw, rh)
  IN  [d EXCEPT !.pc = "sized", !.rotationNormalsed = rn, !.rotatedWidth = rw,
                !.rotatedHeight = rh, !.fit = size.fit,
                !.displayWidth = size.width, !.displayHeight = size.height,
                !.scaleFactor = ScaleFactor(size.width, rw),
                !.canvas = <<Trunc(size.width), Trunc(size.height)>>]

\* line 697: drawImage(img, -img.width / 2, -img.height / 2)
ImageOp(im) ==
  [kind |-> "image", field |-> "none",
   x |-> Negate(Over(Num(im.width), 2)), y |-> Negate(Over(Num(im.height), 2)),
   w |-> Num(im.width), h |-> Num(im.height),
   lineWidth |-> Num(0), dash |-> <<>>, alpha |-> "ff"]

\* line 699: drawLineWidth
DrawLineWidth(value, scaleFactor) == Divide(Num(value), scaleFactor)

\* Every box taken for the highlighted one.
IsHighlighted_Always(highlighted, field) == TRUE
\* line 704: highlightedField === bboxInfo.field
IsHighlighted(highlighted, field) == highlighted = field

\* lines 703-719: one box.
BoxOp(b, im, highlighted, scaleFactor) ==
  LET isHighlighted == IsHighlighted(highlighted, b.field) IN
  [kind |-> "box", field |-> b.field,
   x |-> BoxOrigin(b.bbox[1], im.width), y |-> BoxOrigin(b.bbox[2], im.height),
   w |-> Minus(Num(b.bbox[3]), Num(b.bbox[1])),
   h |-> Minus(Num(b.bbox[4]), Num(b.bbox[2])),
   lineWidth |-> DrawLineWidth(IF isHighlighted THEN 4 ELSE 2, scaleFactor),
   dash |-> IF isHighlighted THEN <<>> ELSE <<5, 5>>,
   alpha |-> IF isHighlighted THEN "40" ELSE "20"]

\* lines 691-749
Paint(d, im, boxes, highlighted) ==
  [d EXCEPT !.pc = "drawn",
            !.transform = [x |-> Over(d.displayWidth, 2),
                           y |-> Over(d.displayHeight, 2),
                           rotate |-> d.rotationNormalsed,
                           scale |-> d.scaleFactor],
            !.ops = <<ImageOp(im)>>
                      \o [k \in 1..Len(boxes) |->
                             BoxOp(boxes[k], im, highlighted, d.scaleFactor)]]

\* Where the canvas puts the point (x, y) of the transformed frame, for a
\* transform without rotation: translate, then scale.
OnSurface(t, x, y) == <<Plus(t.x, Times(t.scale, x)), Plus(t.y, Times(t.scale, y))>>

DrawIdle ==
  /\ img = [width |-> 1, height |-> 1]
  /\ containerWidth = 1
  /\ draw = DrawStart

\* The onload handler ran as far as line 686; the width fit stands.
OnloadFitWidth ==
  /\ draw.pc = "loading"
  /\ FitsWidth(containerWidth,
               RotatedWidth(img, IsUpright(NormaliseRotation(imageRotation))),
               RotatedHeight(img, IsUpright(NormaliseRotation(imageRotation))))
  /\ draw' = Measure(draw, img, containerWidth, imageRotation)
  /\ UNCHANGED <<img, containerWidth>>
  /\ UNCHANGED <<scanVars, vizVars, clickVars, appVars>>

\* The same with lines 678-679 taken: the height fit.
OnloadFitHeight ==
  /\ draw.pc = "loading"
  /\ ~FitsWidth(containerWidth,
                RotatedWidth(img, IsUpright(NormaliseRotation(imageRotation))),
                RotatedHeight(img, IsUpright(NormaliseRotation(imageRotation))))
  /\ draw' = Measure(draw, img, containerWidth, imageRotation)
  /\ UNCHANGED <<img, containerWidth>>
  /\ UNCHANGED <<scanVars, vizVars, clickVars, appVars>>

\* lines 688-749: the handler draws the image and the boxes.
OnloadPaint ==
  /\ draw.pc = "sized"
  /\ draw' = Paint(draw, img, BoundingBoxes(data), highlightedField)
  /\ UNCHANGED <<img, containerWidth>>
  /\ UNCHANGED <<scanVars, vizVars, clickVars, appVars>>

-----------------------------------------------------------------------------
(* Highlighting: the visualizer's legend buttons and ResultsDisplay's      *)
(* field rows, both wired to App's setHighlightedField (part_004 lines     *)
(* 303-308 and 348-353).  null is written "none".                          *)

\* line 796: onFieldClick?.(bboxInfo.field)
LegendEmits(highlighted, f) == f

\* The row's handler without the comparison.
RowEmits_NoToggle(highlighted, f) == f
\* lines 892-893, 913-916, ..., 1024-1025:
\* onFieldSelect(highlightedField === "<f>" ? null : "<f>")
RowEmits(highlighted, f) == IF highlighted = f THEN "none" ELSE f

\* line 793: the legend has one button per entry of boundingBoxes.
LegendFields(d) == { BoundingBoxes(d)[k].field : k \in 1..Len(BoundingBoxes(d)) }

\* lines 885, 906, ..., 1017: a row is rendered when the field's text is set.
RowFields(d) == { f \in FieldSet : d.present /\ d.text[f] }

Click(panel, f, before, emitted) ==
  [panel |-> panel, field |-> f, before |-> before, emitted |-> emitted]

ClickIdle == clickLog = <<>>

\* setHighlightedField(v) from a click: the state changes, and with a new
\* value the visualizer's draw effect runs again (line 753).
Highlight(v, click) ==
  /\ highlightedField' = v
  /\ clickLog' = Append(clickLog, click)
  /\ loads' = IF mounted /\ v # highlightedField
              THEN Append(loads, NewLoad(imageUrl, imageRotation, data, v))
              ELSE loads
  /\ UNCHANGED <<mounted, imageUrl, data, imageRotation, scans, surface,
                 lastScan, changes>>
  /\ UNCHANGED <<scanVars, drawVars, appVars>>

\* A click on the legend button of field f.
LegendClick(f) ==
  /\ mounted
  /\ f \in LegendFields(data)
  /\ Len(clickLog) < MaxClicks
  /\ Highlight(LegendEmits(highlightedField, f),
               Click("legend", f, highlightedField, LegendEmits(highlightedField, f)))

\* A click on the results panel's row of field f.
RowClick(f) ==
  /\ f \in RowFields(data)
  /\ Len(clickLog) < MaxClicks
  /\ Highlight(RowEmits(highlightedField, f),
               Click("row", f, highlightedField, RowEmits(highlightedField, f)))

-----------------------------------------------------------------------------
(* App (part_004) with DocumentUpload's submit button.  The record app     *)
(* holds App's state, what the last committed render handed to its effects *)
(* and to DocumentUpload, and the world around the component: the interval *)
(* timers, the requests in flight, the server's documents and the object   *)
(* URLs revoked so far.  null is written 0, NoUrl, NoFile or NoDocument.   *)
(***************************************************************************)

\* part_004 line 162
maxAttempts == 60

\* A URL: "blob" for a result of URL.createObjectURL, "data" for a
\* document's image_preview.
NoUrl == [scheme |-> "none", id |-> 0]
BlobUrl(n) == [scheme |-> "blob", id |-> n]
PreviewUrl(d) == [scheme |-> "data", id |-> d]

\* lines 31, 67: url && url.startsWith("blob:")
StartsWithBlob(url) == url.scheme = "blob"

\* A DocumentResponse: its id, status and whether it has an image_preview;
\* seq numbers the user request (upload or history click) it answers, 0
\* for an entry of the documents list.
NoDocument == [id |-> 0, status |-> "none", preview |-> FALSE, seq |-> 0]
DocumentResponse(id, status, preview, seq) ==
  [id |-> id, status |-> status, preview |-> preview, seq |-> seq]

\* document.image_preview || null
ImagePreview(document) ==
  IF document.preview THEN PreviewUrl(document.id) ELSE NoUrl

NoFile == [id |-> 0, size |-> 0]
File(id, size) == [id |-> id, size |-> size]

\* The documents the server holds from the start, both completed, the
\* first with an image_preview; uploads get the ids after them.
History ==
  << DocumentResponse(1, "completed", TRUE, 0),
     DocumentResponse(2, "completed", FALSE, 0) >>

\* The server's document d as the answer to request seq.
ServerDocument(a, d, seq) ==
  IF d <= Len(History) THEN [History[d] EXCEPT !.seq = seq]
  ELSE DocumentResponse(d, a.server[d - Len(History)].status,
                        a.server[d - Len(History)].preview, seq)

\* getDocuments: the uploads, newest first, then the history.
Listing(a) ==
  [k \in 1..Len(a.server) |->
     ServerDocument(a, Len(History) + Len(a.server) + 1 - k, 0)] \o History

Request(kind, doc, session, at, seq) ==
  [kind |-> kind, doc |-> doc, session |-> session, at |-> at, seq |-> seq]

\* lines 20-27 and 39-41: the state after the first render, loadDocuments
\* called; limit holds how many files, submit clicks, history clicks,
\* timer ticks and polls in flight a behaviour may have.
AppStart(limit) ==
  [currentDocument |-> NoDocument, documents |-> <<>>, isProcessing |-> FALSE,
   error |-> "none", pollingInterval |-> 0, resultsImageUrl |-> NoUrl,
   uploadResetSignal |-> 0, selectedFile |-> NoFile,
   rendered |-> [isProcessing |-> FALSE, resetSignal |-> 0],
   effect |-> [pollingInterval |-> 0, resultsImageUrl |-> NoUrl],
   timers |-> {}, sessions |-> <<>>,
   requests |-> {Request("list", 0, 0, 0, 0)},
   server |-> <<>>, revoked |-> {}, blobs |-> 0, lastSeq |-> 0, okSeq |-> 0,
   submits |-> <<>>, clicks |-> 0, limit |-> limit]

\* lines 29-36: updateResultsImage
UpdateResultsImage(a, newUrl) ==
  [a EXCEPT !.revoked = IF StartsWithBlob(a.resultsImageUrl)
                        THEN @ \cup {a.resultsImageUrl.id} ELSE @,
            !.resultsImageUrl = newUrl]

\* The pollingInterval that startPolling and poll read.  handleUpload is
\* memoized on [updateResultsImage] (lines 82, 152), which never changes
\* (line 36), so it is the handleUpload of the first render and calls that
\* render's startPolling, whose pollingInterval is the initial state
\* (line 24).
ClosurePollingInterval(a) == 0

\* lines 157-159 (reset FALSE) and 169-172, 191-194, 206-209 (reset TRUE):
\* if (pollingInterval) { clearInterval(pollingInterval); ... }
ClearPolling(a, reset) ==
  LET p == ClosurePollingInterval(a) IN
  IF p = 0 THEN a
  ELSE [a EXCEPT !.timers = @ \ {p},
                 !.pollingInterval = IF reset THEN 0 ELSE @]

\* lines 155-163, 216-218: startPolling.  A session is one call's closure:
\* its document, attempts, the requests it issued, whether a response with
\* a final status was handled and whether it issued a request after that.
StartPolling(a, documentId, seq) ==
  LET a1 == ClearPolling(a, FALSE)
      interval == Len(a1.sessions) + 1
  IN  [a1 EXCEPT !.sessions = Append(@, [doc |-> documentId, attempts |-> 0,
                                         issued |-> 0, seq |-> seq,
                                         finished |-> FALSE, late |-> FALSE]),
                 !.timers = @ \cup {interval},
                 !.pollingInterval = interval]

\* The test with >= for >.
AttemptsExhausted_Early(attempts) == attempts >= maxAttempts
\* line 168: attempts > maxAttempts
AttemptsExhausted(attempts) == attempts > maxAttempts

\* lines 164-178: timer t fires; poll runs as far as its await.
Poll(a, t) ==
  LET s == a.sessions[t]
      attempts == s.attempts + 1
  IN  IF AttemptsExhausted(attempts)
      THEN [ClearPolling(a, TRUE) EXCEPT !.isProcessing = FALSE,
                                         !.sessions[t].attempts = attempts]
      ELSE [a EXCEPT !.sessions[t].attempts = attempts,
                     !.sessions[t].issued = @ + 1,
                     !.sessions[t].late = @ \/ s.finished,
                     !.requests = @ \cup {Request("poll", s.doc, t, attempts, s.seq)}]

\* line 185-187: prev.map((doc) => (doc.id === documentId ? updated : doc))
Replace(documents, updated) ==
  [i \in 1..Len(documents) |->
     IF documents[i].id = updated.id THEN [updated EXCEPT !.seq = 0]
     ELSE documents[i]]

\* lines 178-200: poll after its await resolved.
PollResolved(a, r) ==
  LET updated == ServerDocument(a, r.doc, r.seq)
      a1 == [a EXCEPT !.currentDocument = updated]
      a2 == IF updated.preview THEN UpdateResultsImage(a1, ImagePreview(updated))
            ELSE a1
      a3 == [a2 EXCEPT !.documents = Replace(@, updated)]
  IN  IF updated.status \in {"completed", "error"}
      THEN [ClearPolling(a3, TRUE) EXCEPT
              !.isProcessing = FALSE,
              !.error = IF updated.status = "error" THEN "processing" ELSE @,
              !.sessions[r.session].finished = TRUE]
      ELSE a3

\* lines 201-213: poll after its await rejected.
PollRejected(a, r) ==
  IF a.sessions[r.session].attempts > 5
  THEN [ClearPolling(a, TRUE) EXCEPT !.isProcessing = FALSE, !.error = "poll"]
  ELSE a

\* lines 92-122: handleUpload as far as its await.  The checks of lines
\* 99-107 pass for every file validateFile let through.
HandleUpload(a, file) ==
  LET a1 == [a EXCEPT !.isProcessing = TRUE, !.error = "none",
                      !.currentDocument = NoDocument]
  IN  IF file.size = 0
      THEN [a1 EXCEPT !.error = "upload", !.isProcessing = FALSE]
      ELSE [a1 EXCEPT !.lastSeq = @ + 1,
                      !.requests = @ \cup {Request("upload", 0, 0, 0, a.lastSeq + 1)}]

\* lines 123-144: handleUpload after uploadDocument resolved with a new
\* document of the given status.
UploadResolved(a, r, status, preview) ==
  LET id == Len(History) + Len(a.server) + 1
      document == DocumentResponse(id, status, preview, r.seq)
      a1 == [a EXCEPT !.server = Append(@, [status |-> status, preview |-> preview]),
                      !.currentDocument = document,
                      !.okSeq = IF r.seq > @ THEN r.seq ELSE @]
      a2 == IF preview THEN UpdateResultsImage(a1, ImagePreview(document)) ELSE a1
      a3 == [a2 EXCEPT !.documents = << [document EXCEPT !.seq = 0] >> \o @]
  IN  IF status = "processing" THEN StartPolling(a3, id, r.seq)
      ELSE IF status = "completed" THEN [a3 EXCEPT !.isProcessing = FALSE]
      ELSE [a3 EXCEPT !.isProcessing = FALSE, !.error = "processing"]

\* lines 145-150: handleUpload's catch.
UploadRejected(a) == [a EXCEPT !.error = "upload", !.isProcessing = FALSE]

\* lines 221-228: handleDocumentClick after getDocument resolved.
DocumentClickResolved(a, r) ==
  LET document == ServerDocument(a, r.doc, r.seq)
  IN  UpdateResultsImage([a EXCEPT !.currentDocument = document,
                                   !.uploadResetSignal = @ + 1,
                                   !.okSeq = IF r.seq > @ THEN r.seq ELSE @],
                         ImagePreview(document))

\* lines 229-233
DocumentClickRejected(a) == [a EXCEPT !.error = "click"]

\* The checks without the one on isProcessing.
SubmitPasses_WhileProcessing(a) ==
  a.selectedFile # NoFile /\ a.selectedFile.size # 0
\* DocumentUpload.tsx lines 133-150: handleSubmit's early returns; its
\* isProcessing is the prop of the last render.
SubmitPasses(a) ==
  /\ a.selectedFile # NoFile
  /\ ~a.rendered.isProcessing
  /\ a.selectedFile.size # 0

\* DocumentUpload.tsx lines 129-168: handleSubmit.  Each click is logged:
\* the file selected, App's isProcessing and whether an upload was in
\* flight when it came, and how many times it called onUpload.
HandleSubmit(a) ==
  LET click == [file |-> a.selectedFile, processing |-> a.isProcessing,
                uploading |-> \E r \in a.requests : r.kind = "upload",
                calls |-> IF SubmitPasses(a) THEN 1 ELSE 0]
      a1 == [a EXCEPT !.submits = Append(@, click)]
  IN  IF SubmitPasses(a) THEN HandleUpload(a1, a.selectedFile) ELSE a1

\* DocumentUpload.tsx lines 67-110 for a file validateFile accepts, and
\* part_004 lines 367-371: onFileSelect(file).
HandleFileInput(a, size) ==
  UpdateResultsImage([a EXCEPT !.selectedFile = File(a.blobs + 1, size),
                               !.blobs = @ + 1],
                     BlobUrl(a.blobs + 1))

\* DocumentUpload.tsx lines 209-217 and part_004 lines 372-374: the
\* Remove File button.
RemoveFile(a) == UpdateResultsImage([a EXCEPT !.selectedFile = NoFile], NoUrl)

\* lines 62-71: when pollingInterval or resultsImageUrl differ from what
\* the effect's last run captured, its cleanup runs with the captured
\* values and the effect runs again.
CleanupEffect(a) ==
  LET deps == [pollingInterval |-> a.pollingInterval,
               resultsImageUrl |-> a.resultsImageUrl]
  IN  IF a.effect = deps THEN a
      ELSE [a EXCEPT !.timers = @ \ {a.effect.pollingInterval},
                     !.revoked = IF StartsWithBlob(a.effect.resultsImageUrl)
                                 THEN @ \cup {a.effect.resultsImageUrl.id} ELSE @,
                     !.effect = deps]

\* DocumentUpload.tsx lines 49-55: the effect on resetSignal.
ResetEffect(a) ==
  IF a.rendered.resetSignal = a.uploadResetSignal THEN a
  ELSE [a EXCEPT !.selectedFile = NoFile]

\* lines 49-52: the first completed document, else the first.
DocToShow(documents) ==
  IF \E i \in 1..Len(documents) : documents[i].status = "completed"
  THEN documents[CHOOSE i \in 1..Len(documents) :
                   /\ documents[i].status = "completed"
                   /\ \A j \in 1..(i - 1) : documents[j].status # "completed"]
  ELSE documents[1]

\* lines 44-59: the effect that shows a document when none is shown.
AutoSelect(a) ==
  IF a.isProcessing \/ a.currentDocument # NoDocument \/ a.documents = <<>> THEN a
  ELSE UpdateResultsImage([a EXCEPT !.currentDocument = DocToShow(a.documents)],
                          ImagePreview(DocToShow(a.documents)))

\* A render is committed and its effects run; the state AutoSelect sets is
\* rendered in turn.
Flush(a) ==
  LET a1 == ResetEffect(CleanupEffect(a))
      a2 == [a1 EXCEPT !.rendered = [isProcessing |-> a1.isProcessing,
                                     resetSignal |-> a1.uploadResetSignal]]
  IN  CleanupEffect(AutoSelect(a2))

\* The files picked and the clicks on the upload button and on the history.
UserActions(a) == a.blobs + Len(a.submits) + a.clicks

TotalTicks(a) ==
  LET RECURSIVE Sum(_)
      Sum(i) == IF i = 0 THEN 0 ELSE a.sessions[i].attempts + Sum(i - 1)
  IN  Sum(Len(a.sessions))

AppIdle ==
  app = AppStart([files |-> 0, submits |-> 0, clicks |-> 0, ticks |-> 0, pending |-> 0,
                actions |-> 0])

\* The user picks or drops a valid file, empty or not.  React renders the
\* updates of a user event before the event returns.
SelectFile(size) ==
  /\ app.blobs < app.limit.files
  /\ UserActions(app) < app.limit.actions
  /\ app' = Flush(HandleFileInput(app, size))
  /\ UNCHANGED besidesApp

RemoveFileClick ==
  /\ app.selectedFile # NoFile
  /\ app' = Flush(RemoveFile(app))
  /\ UNCHANGED besidesApp

\* DocumentUpload.tsx lines 360-362: a click on Upload and Process, which is
\* disabled without a file and while isProcessing.
Submit ==
  /\ app.selectedFile # NoFile
  /\ ~app.rendered.isProcessing
  /\ Len(app.submits) < app.limit.submits
  /\ UserActions(app) < app.limit.actions
  /\ app' = Flush(HandleSubmit(app))
  /\ UNCHANGED besidesApp

\* lines 221-223: a click on entry d of the history.
DocumentClick(d) ==
  /\ app.clicks < app.limit.clicks
  /\ UserActions(app) < app.limit.actions
  /\ \E i \in 1..Len(app.documents) : app.documents[i].id = d
  /\ app' = Flush([app EXCEPT !.clicks = @ + 1, !.lastSeq = @ + 1,
                              !.requests = @ \cup {Request("click", d, 0, 0, app.lastSeq + 1)}])
  /\ UNCHANGED besidesApp

\* lines 73-80: loadDocuments' await settles.
DocumentsLoad(ok) ==
  /\ \E r \in app.requests :
       /\ r.kind = "list"
       /\ app' = IF ok THEN [app EXCEPT !.requests = @ \ {r}, !.documents = Listing(app)]
                 ELSE [app EXCEPT !.requests = @ \ {r}]
  /\ UNCHANGED besidesApp

\* uploadDocument settles: with a new document, or with an error.
UploadSettles(status, preview) ==
  /\ \E r \in app.requests :
       /\ r.kind = "upload"
       /\ app' = IF status = "rejected"
                 THEN UploadRejected([app EXCEPT !.requests = @ \ {r}])
                 ELSE UploadResolved([app EXCEPT !.requests = @ \ {r}], r, status, preview)
  /\ UNCHANGED besidesApp

\* An interval timer fires.
TimerFires(t) ==
  /\ t \in app.timers
  /\ TotalTicks(app) < app.limit.ticks
  /\ Cardinality({r \in app.requests : r.kind = "poll"}) < app.limit.pending
  /\ app' = Poll(app, t)
  /\ UNCHANGED besidesApp

\* A poll's getDocument settles.
PollSettles(ok) ==
  /\ \E r \in app.requests :
       /\ r.kind = "poll"
       /\ app' = IF ok THEN PollResolved([app EXCEPT !.requests = @ \ {r}], r)
                 ELSE PollRejected([app EXCEPT !.requests = @ \ {r}], r)
  /\ UNCHANGED besidesApp

\* A history click's getDocument settles.
DocumentClickSettles(ok) ==
  /\ \E r \in app.requests :
       /\ r.kind = "click"
       /\ app' = IF ok THEN DocumentClickResolved([app EXCEPT !.requests = @ \ {r}], r)
                 ELSE DocumentClickRejected([app EXCEPT !.requests = @ \ {r}])
  /\ UNCHANGED besidesApp

\* The server finishes processing upload k.
ServerFinishes(k, status) ==
  /\ k \in 1..Len(app.server)
  /\ app.server[k].status = "processing"
  /\ app' = [app EXCEPT !.server[k].status = status]
  /\ UNCHANGED besidesApp

\* React renders the updates a timer callback or a settled await queued,
\* and runs the effects.
Commit ==
  /\ Flush(app) # app
  /\ app' = Flush(app)
  /\ UNCHANGED besidesApp

-----------------------------------------------------------------------------
(* SpecScan: readExifOrientation on every input, one action per pass.      *)

\* Every input is loaded from a fetchable source; the valued JPEGs from a
\* data URL too; the sources that yield no bytes hold a JPEG the code
\* would find orientation 6 in.
ScanCases ==
  { <<in, lc>> \in Inputs \X LoadCases :
      \/ lc = <<"http", "absent", "ok">>
      \/ lc = <<"data", "valid", "ok">> /\ in \in ValuedInputs
      \/ ~YieldsBytes(lc) /\ in \in PokeBase /\ in.layout = "plus8" }

ScanInit ==
  /\ \E c \in ScanCases :
       /\ input = c[1]
       /\ source = ImageSource(c[2][1], c[2][2], c[2][3], BufferOf(c[1]), TRUE)
  /\ promise = "loading"
  /\ buf = <<>>
  /\ scan = ScanStart
  /\ degrees = <<>>
  /\ VizInit
  /\ DrawIdle
  /\ ClickIdle
  /\ AppIdle

\* line 544-547: await loadImageBuffer(imageUrl); no buffer resolves to 0.
LoadBuffer ==
  /\ promise = "loading"
  /\ LET buffer == LoadImageBuffer(source) IN
     IF buffer.kind = "throw"
     THEN promise' = "rejected" /\ UNCHANGED <<buf, degrees>>
     ELSE IF buffer.kind = "null"
     THEN promise' = "resolved" /\ degrees' = <<0>> /\ UNCHANGED buf
     ELSE promise' = "scanning" /\ buf' = buffer.bytes /\ UNCHANGED degrees
  /\ UNCHANGED <<input, source, scan>>
  /\ UNCHANGED besidesScan

\* lines 455-461: the SOI check.
ScanHead ==
  /\ promise = "scanning"
  /\ scan.pc = "start"
  /\ scan' = CheckSOI(buf, scan)
  /\ UNCHANGED <<input, source, promise, buf, degrees>>
  /\ UNCHANGED besidesScan

LoopContinues == scan.offset < Len(buf) /\ ~MarkerOutOfBounds(scan.offset, Len(buf))

\* line 468, 471: the marker read at the cursor is APP1.
MarkerIsApp1 ==
  InRange(buf, scan.offset, 2) /\ GetUint16(buf, scan.offset, FALSE) = APP1

\* lines 463-466, 524: the loop ends at its condition or its first check.
ScanStop ==
  /\ promise = "scanning"
  /\ scan.pc = "loop"
  /\ ~LoopContinues
  /\ scan' = LoopPass(buf, scan)
  /\ UNCHANGED <<input, source, promise, buf, degrees>>
  /\ UNCHANGED besidesScan

\* lines 468-512: a pass that reads the APP1 marker.
ScanApp1 ==
  /\ promise = "scanning"
  /\ scan.pc = "loop"
  /\ LoopContinues
  /\ MarkerIsApp1
  /\ scan' = LoopPass(buf, scan)
  /\ UNCHANGED <<input, source, promise, buf, degrees>>
  /\ UNCHANGED besidesScan

\* lines 468-470, 513-521: a pass that reads any other marker.
ScanOther ==
  /\ promise = "scanning"
  /\ scan.pc = "loop"
  /\ LoopContinues
  /\ ~MarkerIsApp1
  /\ scan' = LoopPass(buf, scan)
  /\ UNCHANGED <<input, source, promise, buf, degrees>>
  /\ UNCHANGED besidesScan

\* line 549: return orientationToDegrees(orientation), once the scan has
\* returned; a throw of the scan rejects the promise instead.
MapOrientation ==
  /\ promise = "scanning"
  /\ scan.pc = "done"
  /\ IF scan.thrown
     THEN promise' = "rejected" /\ UNCHANGED degrees
     ELSE promise' = "resolved" /\ degrees' = <<OrientationToDegrees(scan.ret)>>
  /\ UNCHANGED <<input, source, buf, scan>>
  /\ UNCHANGED besidesScan

ScanNext == LoadBuffer \/ ScanHead \/ ScanStop \/ ScanApp1 \/ ScanOther \/ MapOrientation

SpecScan == ScanInit /\ [][ScanNext]_vars

\* The buffers whose scans skip segments, some declaring a length below 2,
\* or go through IFD0 without a match and resume; and the raw buffers.
LiveInputs == SegmentPokeInputs \cup NoOrientationInputs \cup RawInputs

LiveInit ==
  /\ \E c \in ScanCases :
       /\ c[1] \in LiveInputs
       /\ input = c[1]
       /\ source = ImageSource(c[2][1], c[2][2], c[2][3], BufferOf(c[1]), TRUE)
  /\ promise = "loading"
  /\ buf = <<>>
  /\ scan = ScanStart
  /\ degrees = <<>>
  /\ VizInit
  /\ DrawIdle
  /\ ClickIdle
  /\ AppIdle

\* The scan is a synchronous loop inside an async function whose awaits
\* settle: once called, it keeps taking steps.
SpecScanLive == LiveInit /\ [][ScanNext]_vars /\ WF_vars(ScanNext)

-----------------------------------------------------------------------------
(* SpecViz: the visualizer under prop changes and task completions.        *)

ScanIdle ==
  /\ input = ExifInput("none", FALSE, 0, "tiff", "empty", 0, "none", -1, -1, 0)
  /\ source = ImageSource("http", "absent", "ok", <<>>, TRUE)
  /\ promise = "loading"
  /\ buf = <<>>
  /\ scan = ScanStart
  /\ degrees = <<>>

VizSpecInit == ScanIdle /\ VizInit /\ DrawIdle /\ ClickIdle /\ AppIdle

VizNext ==
  \/ \E u \in SourceIds : Mount(u)
  \/ \E u \in SourceIds : ChangeImage(u)
  \/ Unmount
  \/ \E d \in DataIds : SetData(d)
  \/ \E h \in FieldIds : SetHighlight(h)
  \/ \E i \in DOMAIN scans : ScanSettles(i)
  \/ \E i \in DOMAIN loads : ImageLoads(i)
  \/ \E i \in DOMAIN loads : ImageFails(i)

SpecViz == VizSpecInit /\ [][VizNext]_vars

-----------------------------------------------------------------------------
(* SpecDraw: the onload handler on one decoded image, for every case of    *)
(* DrawCases.                                                              *)

\* Image sides: every small side, and the sides of document scans.
Sides == (1..MaxSide) \cup {500, 600, 800, 1000, 2000}
Widths == {3, 500, 1000}

Image(w, h) == [width |-> w, height |-> h]

\* Field i's rect, n numbers long: [100 i, 100, 100 i + 200, 150], cut
\* short or continued with zeros.
Rect(i, n) ==
  [k \in 1..n |-> CASE k = 1 -> 100 * i
                    [] k = 2 -> 100
                    [] k = 3 -> 100 * i + 200
                    [] k = 4 -> 150
                    [] OTHER -> 0]

FieldIndex(f) == CHOOSE i \in 1..Len(FIELDS) : FIELDS[i] = f

\* A payload from, per field, the shape of its _bbox: "absent", or the
\* length of the array.
Shaped(shape) ==
  DocumentData([f \in FieldSet |-> TRUE],
               [f \in FieldSet |->
                  IF shape[f] = -1 THEN NoBox ELSE Box(Rect(FieldIndex(f), shape[f]))])

AllBoxes == Shaped([f \in FieldSet |-> 4])

DrawCase(im, width, rotation, d, h) ==
  [img |-> im, width |-> width, rotation |-> rotation, data |-> d, highlight |-> h]

\* Every size, upright and turned, every container width.
SizeCases ==
  { DrawCase(Image(w, h), c, r, Shaped([f \in FieldSet |-> IF f = "full_name" THEN 4 ELSE -1]), "none") :
      w \in Sides, h \in Sides, c \in Widths, r \in {0, 90} }

\* Every number of quarter turns, negative and beyond a full turn.
TurnCases ==
  { DrawCase(im, 500, 90 * k, AllBoxes, "full_name") :
      im \in {Image(1000, 2000), Image(3, 7)}, k \in (0 - MaxTurns)..MaxTurns }

\* Every payload whose fields each have no _bbox, one of 4 numbers or one
\* of 3; and for every field alone, an array of every length.
ShapeCases ==
  { DrawCase(Image(1000, 500), 1000, 0, Shaped(shape), "none") :
      shape \in [FieldSet -> {-1, 3, 4}] }

LengthCases ==
  { DrawCase(Image(1000, 800), 1000, r,
             Shaped([g \in FieldSet |-> IF g = f THEN n ELSE -1]), "none") :
      f \in FieldSet, n \in 0..MaxRectLen, r \in {0, 90} }

\* Every highlight on a payload with all boxes, on one without a
\* full_name box and with a date_of_birth array of 3 numbers, and without
\* a payload.
HighlightCases ==
  { DrawCase(im, 1000, 0, d, h) :
      im \in {Image(1000, 500), Image(1000, 800), Image(3, 7)},
      d \in {AllBoxes, NoData,
             Shaped([f \in FieldSet |-> CASE f = "full_name" -> -1
                                          [] f = "date_of_birth" -> 3
                                          [] OTHER -> 4])},
      h \in FieldSet \cup {"none"} }

DrawCases == SizeCases \cup TurnCases \cup ShapeCases \cup LengthCases
               \cup HighlightCases

DrawInit ==
  /\ ScanIdle
  /\ ClickIdle
  /\ AppIdle
  /\ mounted = TRUE
  /\ imageUrl = "A"
  /\ scans = <<>>
  /\ loads = <<>>
  /\ surface = Blank
  /\ lastScan = 0
  /\ changes = 0
  /\ draw = DrawStart
  /\ \E c \in DrawCases :
       /\ img = c.img
       /\ containerWidth = c.width
       /\ imageRotation = c.rotation
       /\ data = c.data
       /\ highlightedField = c.highlight

DrawNext == OnloadFitWidth \/ OnloadFitHeight \/ OnloadPaint

SpecDraw == DrawInit /\ [][DrawNext]_vars

-----------------------------------------------------------------------------
(* SpecClick: clicks on the legend and on the result rows, the visualizer  *)
(* showing source A with its rotation detected and its image drawn.        *)

\* All fields with text and box; all with text, two with a box; three with
\* text, all with a box.
ClickPayloads ==
  { AllBoxes,
    Shaped([f \in FieldSet |-> IF f \in {"full_name", "address"} THEN 4 ELSE -1]),
    DocumentData([f \in FieldSet |-> f \in {"full_name", "issue_date", "address"}],
                 AllBoxes.bbox) }

ClickInit ==
  /\ ScanIdle
  /\ DrawIdle
  /\ ClickIdle
  /\ AppIdle
  /\ mounted = TRUE
  /\ imageUrl = "A"
  /\ imageRotation = RotationOf("A")
  /\ highlightedField = "none"
  /\ scans = << [NewScan("A") EXCEPT !.status = "applied", !.value = RotationOf("A")] >>
  /\ lastScan = 1
  /\ changes = 0
  /\ \E d \in ClickPayloads :
       /\ data = d
       /\ loads = << [NewLoad("A", RotationOf("A"), d, "none") EXCEPT !.status = "loaded"] >>
       /\ surface = Drawing("A", RotationOf("A"), d, "none")

ClickNext ==
  \/ \E f \in FieldSet : LegendClick(f)
  \/ \E f \in FieldSet : RowClick(f)

SpecClick == ClickInit /\ [][ClickNext]_vars

-----------------------------------------------------------------------------
(* SpecApp: App with its upload panel and its history, a few user actions  *)
(* and timer ticks.  SpecPoll: one upload polled until poll gives up, with *)
(* the timers, the responses and the renders fair.                         *)

AppLimits ==
  [files |-> MaxFiles, submits |-> MaxSubmits, clicks |-> MaxDocumentClicks,
   ticks |-> MaxTicks, pending |-> MaxPending, actions |-> MaxUserActions]

PollLimits ==
  [files |-> MaxPollActions, submits |-> MaxPollActions, clicks |-> MaxPollActions,
   ticks |-> maxAttempts + 2, pending |-> MaxPollActions,
   actions |-> 3 * MaxPollActions]

AppInit ==
  /\ ScanIdle
  /\ VizInit
  /\ DrawIdle
  /\ ClickIdle
  /\ app = AppStart(AppLimits)

PollInit ==
  /\ ScanIdle
  /\ VizInit
  /\ DrawIdle
  /\ ClickIdle
  /\ app = AppStart(PollLimits)

UploadOutcomes == {"processing", "completed", "error", "rejected"}

\* What happens without the user or the server's worker: timers fire,
\* requests settle, React renders.
AppRuns ==
  \/ \E ok \in BOOLEAN : DocumentsLoad(ok)
  \/ \E status \in UploadOutcomes, preview \in BOOLEAN : UploadSettles(status, preview)
  \/ \E t \in 1..MaxSubmits : TimerFires(t)
  \/ \E ok \in BOOLEAN : PollSettles(ok)
  \/ \E ok \in BOOLEAN : DocumentClickSettles(ok)
  \/ Commit

AppNext ==
  \/ \E size \in {0, 1} : SelectFile(size)
  \/ RemoveFileClick
  \/ Submit
  \/ \E d \in 1..(Len(History) + MaxSubmits) : DocumentClick(d)
  \/ \E k \in 1..MaxSubmits, status \in {"completed", "error"} : ServerFinishes(k, status)
  \/ AppRuns

SpecApp == AppInit /\ [][AppNext]_vars

SpecPoll == PollInit /\ [][AppNext]_vars /\ WF_vars(AppRuns)

-----------------------------------------------------------------------------
(* Claims about readExifOrientation and orientationToDegrees (SpecScan).   *)

ScanDone == scan.pc = "done"

\* The input is a whole, unmodified JPEG of the given layout.
WholeJpeg(in) == in.kind = "exif" /\ in.cut < 0 /\ in.pokeAt < 0

\* Position of the first orientation entry of IFD0 in Jpeg(in).
OrientationEntryAt(in) ==
  2 + Len(PreSegment(in.pre)) + 4 + 6 + 8 + in.pad + 2
    + (IF in.entries = "make-orient" THEN 12 ELSE 0)

\* C1: for SOI + APP1/Exif + TIFF header (II or MM) whose IFD0 offset is
\* relative to the TIFF header start + an IFD0 entry 0x0112 holding V, the
\* scanner returns exactly V, for V in 1..8; the first such entry decides.
C1_ReturnsCraftedValue ==
  (ScanDone /\ WholeJpeg(input) /\ input.layout = "tiff"
     /\ HasOrientation(input.entries) /\ input.value \in 1..8)
  => (~scan.thrown /\ scan.ret = input.value)

\* C2: every read the scanner performs lies fully inside the buffer, so it
\* never throws.
C2_ReadsInsideBuffer ==
  /\ \A r \in scan.reads : r[1] >= 0 /\ r[1] + r[2] <= Len(buf)
  /\ ~scan.thrown

\* An EXIF segment header is present, the buffer is cut inside the IFD0
\* entries, and the entry loop stopped at the cut.
C2_Witness ==
  /\ input.cut >= 0
  /\ scan.branch = "ifd-cut"
  /\ scan.countAt >= 0

\* C5: orientationToDegrees maps 3 to 180, 6 to 90, 8 to 270 and every
\* other value to 0; the result is in {0, 90, 180, 270}.
C5_DegreesTable ==
  (promise = "resolved" /\ ScanDone) =>
    /\ degrees[1] \in {0, 90, 180, 270}
    /\ scan.ret = 3 => degrees[1] = 180
    /\ scan.ret = 6 => degrees[1] = 90
    /\ scan.ret = 8 => degrees[1] = 270
    /\ scan.ret \notin {3, 6, 8} => degrees[1] = 0

\* The mapper has been applied to tag 6.
C5_Witness == promise = "resolved" /\ degrees = <<90>> /\ scan.ret = 6

\* C6: the scanner's result is the not-found sentinel or an integer 1..8.
C6_ResultInRange ==
  (ScanDone /\ ~scan.thrown) => (scan.ret = NOT_FOUND \/ scan.ret \in 1..8)

\* The buffer does not begin with 0xFF 0xD8.
NotJpeg(b) == Len(b) < 2 \/ b[1] # 255 \/ b[2] # 216

\* C7: for a buffer whose first two bytes are not 0xFF 0xD8 (lengths 0 and
\* 1 included) the scanner returns not found, without throwing and without
\* examining any byte after the first two.
C7_NotJpegNotFound ==
  (NotJpeg(buf) /\ scan.pc # "start") =>
    /\ ScanDone
    /\ ~scan.thrown
    /\ scan.ret = NOT_FOUND
    /\ scan.reads \subseteq {<<0, 2>>}

\* A non-JPEG buffer with bytes after the first two has been scanned.
C7_Witness == NotJpeg(buf) /\ Len(buf) > 2 /\ ScanDone

\* C8: the scanner returns not found for a JPEG with no APP1/Exif segment,
\* for an EXIF segment whose IFD0 has no entry 0x0112, and for one cut
\* before the orientation entry; after an IFD0 scan without a match no
\* value from elsewhere in the buffer is returned.
C8_NotFoundWithoutOrientation ==
  (/\ ScanDone
   /\ input.kind = "exif"
   /\ input.pokeAt < 0
   /\ \/ ~HasOrientation(input.entries) /\ input.cut < 0
      \/ HasOrientation(input.entries) /\ input.cut >= 0
           /\ input.cut <= OrientationEntryAt(input))
  => (~scan.thrown /\ scan.ret = NOT_FOUND)

\* No buffer can be obtained from the source: a fetch that throws, answers
\* with a non-success status or fails to deliver its body, a data URL
\* without a base64 part or with one atob rejects.
NoBufferObtainable(src) ==
  \/ src.scheme = "http" /\ src.fetch # "ok"
  \/ src.scheme = "data" /\ src.base64 # "valid"

\* C9: getImageRotationDegrees never rejects; it resolves to a value in
\* {0, 90, 180, 270}, and to 0 whenever no buffer can be obtained.
C9_NeverRejects ==
  /\ promise # "rejected"
  /\ promise = "resolved" =>
       /\ degrees # <<>>
       /\ degrees[1] \in {0, 90, 180, 270}
       /\ NoBufferObtainable(source) => degrees[1] = 0

\* The promise has resolved for a source whose fetch threw.
C9_Witness ==
  /\ promise = "resolved"
  /\ source.scheme = "http"
  /\ source.fetch = "throws"
  /\ degrees = <<0>>

-----------------------------------------------------------------------------
(* Claims about BoundingBoxVisualizer's effects (SpecViz).                 *)

NoPendingScans == \A i \in DOMAIN scans : scans[i].status # "pending"
NoPendingLoads == \A i \in DOMAIN loads : loads[i].status # "pending"

\* C3: when the image source changes while an earlier source's load and
\* scan is in flight, the earlier scan's completion never sets the
\* rotation; once no scan is in flight the rotation is the one derived
\* from the current source, whatever order the scans completed in.
C3_StaleScanDiscarded ==
  /\ []((mounted /\ NoPendingScans) => imageRotation = RotationOf(imageUrl))
  /\ [][\A i \in DOMAIN scans :
          (scans[i].status = "pending" /\ scans[i].cancelled
             /\ scans'[i].status # "pending")
          => imageRotation' = imageRotation]_vars

\* The scan that settled last belongs to an earlier source, carried another
\* rotation than the current one and was discarded.
C3_Witness ==
  /\ mounted
  /\ NoPendingScans
  /\ lastScan > 0
  /\ scans[lastScan].status = "discarded"
  /\ scans[lastScan].url # imageUrl
  /\ scans[lastScan].value # imageRotation

\* C4: a decode started for earlier props or state that completes after
\* they changed never draws: once no decode is in flight the surface shows
\* the draw of the current image source, rotation, boxes and highlight.
C4_SurfaceShowsCurrentInputs ==
  (mounted /\ NoPendingLoads /\ Source(imageUrl).decodes)
  => surface = Drawing(imageUrl, imageRotation, data, highlightedField)

\* C10: when the natural image fails to decode nothing is drawn and the
\* component shows the "No image available" placeholder, not the canvas.
C10_DecodeFailureShowsPlaceholder ==
  (mounted /\ NoPendingLoads /\ ~Source(imageUrl).decodes)
  => (PlaceholderShown /\ surface = Blank)

-----------------------------------------------------------------------------
(* Claims about the onload handler and boundingBoxes (SpecDraw).           *)

Measured == draw.pc # "loading"
Drawn == draw.pc = "drawn"

\* C11: for natural size (W,H) and normalized rotation r the rotated
\* bounding box used for sizing is (H,W) when r is 90 or 270 and (W,H) when
\* r is 0 or 180; a negative or over-360 rotation is first normalized into
\* [0,360), to the angle it is congruent to.
C11_RotatedBoundingBox ==
  Measured =>
    /\ draw.rotationNormalsed \in 0..359
    /\ \E k \in (0 - MaxTurns)..MaxTurns :
         draw.rotationNormalsed = imageRotation + 360 * k
    /\ draw.rotationNormalsed \in {90, 270} =>
         draw.rotatedWidth = img.height /\ draw.rotatedHeight = img.width
    /\ draw.rotationNormalsed \in {0, 180} =>
         draw.rotatedWidth = img.width /\ draw.rotatedHeight = img.height

\* A rotation of five quarter turns backward was normalized to 270 and the
\* sides of a 1000 x 2000 image swapped.
C11_Witness ==
  /\ Measured
  /\ imageRotation = -450
  /\ draw.rotationNormalsed = 270
  /\ img = Image(1000, 2000)
  /\ draw.rotatedWidth = 2000
  /\ draw.rotatedHeight = 1000

\* displayWidth * rotatedHeight - displayHeight * rotatedWidth, exactly.
AspectError ==
  ExactPlus(ExactTimes(draw.displayWidth, Num(draw.rotatedHeight)),
            Negate(ExactTimes(draw.displayHeight, Num(draw.rotatedWidth))))

\* C12 as stated: for every positive natural size, rotation in
\* {0,90,180,270} and positive container width, displayWidth <=
\* containerWidth, displayHeight <= maxHeight (600) and displayWidth *
\* rotatedHeight = displayHeight * rotatedWidth.
C12_DisplaySizeExact ==
  Measured =>
    /\ LessEq(draw.displayWidth, Num(containerWidth))
    /\ LessEq(draw.displayHeight, Num(maxHeight))
    /\ Sign(AspectError) = 0

\* C12, amended: displayWidth <= containerWidth, displayHeight <= maxHeight
\* and the aspect ratio of the rotated bounding box is preserved up to the
\* rounding of the two double operations that compute the fitted side:
\* |displayWidth * rotatedHeight - displayHeight * rotatedWidth| is at most
\* 2^-51 * displayHeight * rotatedWidth.
C12_DisplaySizeRounded ==
  Measured =>
    /\ LessEq(draw.displayWidth, Num(containerWidth))
    /\ LessEq(draw.displayHeight, Num(maxHeight))
    /\ Sign(draw.displayWidth) = 1
    /\ Sign(draw.displayHeight) = 1
    /\ LessEq([AspectError EXCEPT !.neg = FALSE, !.e = @ + 51],
              ExactTimes(draw.displayHeight, Num(draw.rotatedWidth)))

\* The height fit of a 1 x 9 image: displayWidth is 600 * (1/9) rounded,
\* and nine times it is not 600.
C12_Witness ==
  /\ Measured
  /\ draw.fit = "height"
  /\ img = Image(1, 9)
  /\ imageRotation = 0
  /\ Sign(AspectError) # 0

\* C13: scaleFactor equals displayWidth / rotatedWidth, where the width fit
\* is used whenever the resulting height does not exceed maxHeight and the
\* height fit otherwise; for natural size (1000,2000), rotation 90,
\* container width 500 and max height 600 the rotated box is (2000,1000),
\* the display size is (500,250) and scaleFactor is 1/4.
C13_ScaleFactor ==
  Measured =>
    /\ draw.scaleFactor = Over(draw.displayWidth, draw.rotatedWidth)
    /\ draw.fit = IF containerWidth * draw.rotatedHeight
                       <= maxHeight * draw.rotatedWidth
                  THEN "width" ELSE "height"
    /\ draw.fit = "width" => draw.displayWidth = Num(containerWidth)
    /\ draw.fit = "height" => draw.displayHeight = Num(maxHeight)
    /\ (img = Image(1000, 2000) /\ imageRotation = 90 /\ containerWidth = 500) =>
         /\ draw.rotatedWidth = 2000
         /\ draw.rotatedHeight = 1000
         /\ draw.displayWidth = Num(500)
         /\ draw.displayHeight = Num(250)
         /\ ExactTimes(draw.scaleFactor, Num(4)) = Num(1)

\* The claim's example has been measured.
C13_Witness ==
  /\ Measured
  /\ img = Image(1000, 2000)
  /\ imageRotation = 90
  /\ containerWidth = 500
  /\ draw.fit = "width"
  /\ draw.scaleFactor = Over(Num(1), 4)

\* C14: each box with rect [x1,y1,x2,y2] is drawn in the same transformed
\* frame as the image with top-left corner (x1 - W/2, y1 - H/2) and size
\* (x2 - x1, y2 - y1), the image being drawn at (-W/2, -H/2), so the box's
\* offset from the image origin is (x1,y1) for every rotation and scale;
\* under rotation 0 and scale 1 its top-left lands at surface position
\* (displayWidth/2 + x1 - W/2, displayHeight/2 + y1 - H/2); rect
\* [100,100,300,150] on a (1000,800) image has its corner at (-400,-300)
\* of the frame.
C14_BoxesInImageFrame ==
  Drawn =>
    LET boxes == BoundingBoxes(data)
        image == draw.ops[1]
    IN  /\ Len(draw.ops) = Len(boxes) + 1
        /\ image.kind = "image"
        /\ ExactPlus(ExactPlus(image.x, image.x), Num(img.width)) = Num(0)
        /\ ExactPlus(ExactPlus(image.y, image.y), Num(img.height)) = Num(0)
        /\ \A k \in 1..Len(boxes) :
             LET op == draw.ops[k + 1]
                 r == boxes[k].bbox
             IN  /\ op.kind = "box"
                 /\ op.field = boxes[k].field
                 /\ ExactPlus(op.x, Negate(image.x)) = Num(r[1])
                 /\ ExactPlus(op.y, Negate(image.y)) = Num(r[2])
                 /\ op.w = Num(r[3] - r[1])
                 /\ op.h = Num(r[4] - r[2])
                 /\ (draw.rotationNormalsed = 0 /\ draw.scaleFactor = Num(1)) =>
                      OnSurface(draw.transform, op.x, op.y) =
                        << ExactPlus(ExactPlus(Over(draw.displayWidth, 2), Num(r[1])),
                                     Negate(Over(Num(img.width), 2))),
                           ExactPlus(ExactPlus(Over(draw.displayHeight, 2), Num(r[2])),
                                     Negate(Over(Num(img.height), 2))) >>
                 /\ (img = Image(1000, 800) /\ r = <<100, 100, 300, 150>>) =>
                      op.x = Num(-400) /\ op.y = Num(-300)

\* Boxes were drawn at rotation 0 and scale 1, the first with rect
\* [100,100,300,150].
C14_Witness ==
  /\ Drawn
  /\ draw.rotationNormalsed = 0
  /\ draw.scaleFactor = Num(1)
  /\ Len(draw.ops) > 2
  /\ draw.ops[2].field = "full_name"
  /\ data.bbox["full_name"].rect = <<100, 100, 300, 150>>

\* C15: the box list contains exactly the known fields whose rect is
\* present and has length 4, in the fixed order full_name, date_of_birth,
\* document_number, expiry_date, issue_date, nationality, address; a rect
\* of any other length is left out, no field occurs twice, the list has at
\* most 7 entries and is empty without a payload; the boxes drawn are
\* those of the list.
C15_BoxList ==
  LET boxes == BoundingBoxes(data)
      order == <<"full_name", "date_of_birth", "document_number", "expiry_date",
                 "issue_date", "nationality", "address">>
      place(f) == CHOOSE i \in 1..7 : order[i] = f
  IN  /\ \A f \in FieldSet :
           (\E k \in 1..Len(boxes) : boxes[k].field = f)
             <=> (data.present /\ data.bbox[f].has /\ Len(data.bbox[f].rect) = 4)
      /\ \A k \in 1..Len(boxes) :
           /\ boxes[k].field \in FieldSet
           /\ boxes[k].bbox = data.bbox[boxes[k].field].rect
      /\ \A j, k \in 1..Len(boxes) :
           j < k => place(boxes[j].field) < place(boxes[k].field)
      /\ Len(boxes) <= 7
      /\ ~data.present => boxes = <<>>
      /\ Drawn => /\ Len(draw.ops) = Len(boxes) + 1
                  /\ \A k \in 1..Len(boxes) : draw.ops[k + 1].field = boxes[k].field

\* A payload whose full_name rect has 3 numbers and whose other six rects
\* have 4 was drawn: six boxes.
C15_Witness ==
  /\ Drawn
  /\ data.bbox["full_name"].has
  /\ Len(data.bbox["full_name"].rect) = 3
  /\ Len(BoundingBoxes(data)) = 6
  /\ Len(draw.ops) = 7

-----------------------------------------------------------------------------
(* Claims about highlighting (SpecClick).                                  *)

\* The value of highlightedField after click k.
AfterClick(k) ==
  IF k = Len(clickLog) THEN highlightedField ELSE clickLog[k + 1].before

\* C16: clicking a field's legend entry toggles the highlight: a field that
\* is not the highlighted one becomes the highlighted one, the currently
\* highlighted one makes the highlight none; the click callback receives
\* the field identifier or null accordingly.
C16_LegendToggles ==
  \A k \in 1..Len(clickLog) :
    clickLog[k].panel = "legend" =>
      /\ clickLog[k].emitted =
           IF clickLog[k].before = clickLog[k].field THEN "none" ELSE clickLog[k].field
      /\ AfterClick(k) = clickLog[k].emitted

\* C17: in the results panel, clicking a field row when no field or another
\* field is highlighted sets the highlight to that field, and clicking the
\* row of the highlighted field sets it to none; two successive clicks on
\* the same row, starting from none, return the highlight to none.
C17_RowToggles ==
  /\ \A k \in 1..Len(clickLog) :
       clickLog[k].panel = "row" =>
         AfterClick(k) =
           IF clickLog[k].before = clickLog[k].field THEN "none" ELSE clickLog[k].field
  /\ \A k \in 1..(Len(clickLog) - 1) :
       (/\ clickLog[k].panel = "row"
        /\ clickLog[k + 1].panel = "row"
        /\ clickLog[k + 1].field = clickLog[k].field
        /\ clickLog[k].before = "none")
       => AfterClick(k + 1) = "none"

\* The address row was clicked twice, starting from none.
C17_Witness ==
  /\ Len(clickLog) = 2
  /\ clickLog[1] = Click("row", "address", "none", "address")
  /\ clickLog[2].panel = "row"
  /\ clickLog[2].field = "address"
  /\ highlightedField = "none"

-----------------------------------------------------------------------------
(* Claims about the scanner's cursor (SpecScan, SpecScanLive).             *)

\* C18: after an Exif signature match, with T the position of the TIFF
\* byte-order mark (6 bytes after the start of the signature) and o the
\* IFD0 offset read at T+4, the scanner reads the IFD0 entry count at
\* T + o and the i-th 12-byte entry at T + o + 2 + 12*i.
C18_CountAtTiffOffset ==
  scan.tiffAt >= 0 =>
    /\ scan.tiffAt = scan.markerAt + 4 + 6
    /\ <<scan.tiffAt + 4, 4>> \in scan.reads
    /\ scan.countAt >= 0 => scan.countAt = scan.tiffAt + scan.ifdOffset
    /\ scan.entryAt >= 0 =>
         \E i \in 0..Len(buf) :
           scan.entryAt = scan.tiffAt + scan.ifdOffset + 2 + 12 * i

\* The scan is not running, or it has returned or thrown.
ScanSettled == promise = "scanning" => ScanDone

\* C19: for every buffer readExifOrientation terminates; every pass of the
\* loop that reaches the next one leaves the cursor at least two bytes
\* further, also for a segment declaring length 0 or 1, for a non-EXIF
\* APP1 declaring a length below 2, and after an IFD0 scan without a match.
C19_ScanTerminates ==
  /\ <>[]ScanSettled
  /\ [][(scan.pc = "loop" /\ scan'.pc = "loop") => scan'.offset >= scan.offset + 2]_vars

\* A non-EXIF APP1 segment declaring a length below 2 has moved the cursor
\* backward from the signature position, and the loop goes on.
C19_Witness ==
  /\ scan.pc = "loop"
  /\ scan.branch = "app1-skip"
  /\ scan.segLen < 2
  /\ scan.offset < scan.markerAt + 4

\* The cursor after a skipped segment: marker position + 2 + length.
SkipsToNextMarker ==
  scan.branch \in {"app1-skip", "segment-skip"} =>
    scan.offset = scan.markerAt + 2 + scan.segLen

\* C20: for a segment whose marker is at p and whose declared length is L
\* the next marker examined is at p + 2 + L, for a non-APP1 segment and for
\* an APP1 segment without the Exif signature; hence an EXIF APP1 segment
\* that follows APP0/JFIF or a non-EXIF APP1 (such as XMP) is still found
\* and its orientation returned.
C20_ExifFoundAfterSkippedSegment ==
  /\ SkipsToNextMarker
  /\ (ScanDone /\ WholeJpeg(input) /\ input.pre \in {"app0", "xmp"}
        /\ HasOrientation(input.entries) /\ input.value \in 1..8)
     => (~scan.thrown /\ scan.tiffAt >= 0 /\ scan.ret = input.value)

\* The marker the last pass read.
LastMarker == GetUint16(buf, scan.markerAt, FALSE)

\* C21: when the scanner meets a marker that is not APP1 and is a
\* standalone 0xFFxx marker carrying no length (EOI 0xFFD9, RSTn
\* 0xFFD0-0xFFD7), it stops scanning and returns not found, without
\* interpreting the following two bytes as a segment length.
C21_StandaloneMarkerStops ==
  (scan.pc # "start" /\ scan.markerAt >= 0 /\ ~scan.thrown
     /\ LastMarker \in StandaloneMarkers)
  => /\ scan.pc = "done"
     /\ scan.ret = NOT_FOUND
     /\ scan.segLen = -1
     /\ <<scan.markerAt + 2, 2>> \notin scan.reads

-----------------------------------------------------------------------------
(* Claims about the rotation a draw uses (SpecViz).                        *)

\* C23: no draw of an image source ever uses a rotation derived from a
\* different source: from the change of the source from A to B until B's
\* EXIF scan completes, a draw of B uses rotation 0, and never the
\* rotation detected for A; what the canvas shows was drawn with rotation
\* 0 or with the rotation of its own source.
C23_DrawUsesOwnRotation ==
  surface.url # "none" => surface.rotation \in {0, RotationOf(surface.url)}

-----------------------------------------------------------------------------
(* Claims about the style of a drawn box (SpecDraw).                       *)

\* The boxes of the last draw that have the highlighted style.
HighlightedOps ==
  { k \in 2..Len(draw.ops) :
      draw.ops[k].dash = <<>> \/ draw.ops[k].alpha = "40"
        \/ draw.ops[k].lineWidth = DrawLineWidth(4, draw.scaleFactor) }

\* w * scaleFactor is value, up to the rounding of one division.
IsQuotient(w, value, scaleFactor) ==
  LET err == ExactPlus(ExactTimes(w, scaleFactor), Num(0 - value))
  IN  LessEq([err EXCEPT !.neg = FALSE, !.e = @ + 52], Num(value))

\* C22: in every draw a box is drawn in the highlighted style (solid
\* stroke, line width 4/scaleFactor, fill alpha 40) exactly when its field
\* equals the highlighted field, and in the other style (dash [5,5], line
\* width 2/scaleFactor, fill alpha 20) otherwise; at most one box per draw
\* has the highlighted style, and none when no field is highlighted or
\* the highlighted field has no box.
C22_HighlightStyle ==
  Drawn =>
    /\ \A k \in 2..Len(draw.ops) :
         LET op == draw.ops[k] IN
         IF op.field = highlightedField
         THEN /\ op.dash = <<>>
              /\ op.alpha = "40"
              /\ op.lineWidth = DrawLineWidth(4, draw.scaleFactor)
              /\ IsQuotient(op.lineWidth, 4, draw.scaleFactor)
         ELSE /\ op.dash = <<5, 5>>
              /\ op.alpha = "20"
              /\ op.lineWidth = DrawLineWidth(2, draw.scaleFactor)
              /\ IsQuotient(op.lineWidth, 2, draw.scaleFactor)
    /\ Cardinality(HighlightedOps) <= 1
    /\ (highlightedField = "none"
          \/ ~\E k \in 1..Len(BoundingBoxes(data)) :
                 BoundingBoxes(data)[k].field = highlightedField)
       => HighlightedOps = {}

\* Seven boxes were drawn at a scale that is not a power of two, the
\* nationality box in the highlighted style.
C22_Witness ==
  /\ Drawn
  /\ Len(draw.ops) = 8
  /\ highlightedField = "nationality"
  /\ draw.scaleFactor = Over(Num(3), 4)
  /\ HighlightedOps = {7}

-----------------------------------------------------------------------------
(* Claims about App's uploads, polling, history and preview URL (SpecApp,  *)
(* SpecPoll).                                                              *)

Sessions == 1..Len(app.sessions)

\* C24: once a poll response reported completed or error, the polling
\* session is over: its timer is not active and its poll issues no further
\* getDocument request.
C24_PollingStopsWhenFinished ==
  \A t \in Sessions :
    app.sessions[t].finished => t \notin app.timers /\ ~app.sessions[t].late

\* React has rendered every update and run the effects.
Committed == Flush(app) = app

\* The document of the last upload the server answered.
LatestUpload == Len(History) + Len(app.server)

Min(x, y) == IF x <= y THEN x ELSE y

\* C26: a polling session issues a request at each of its first 60 ticks
\* and none later, so at most 60; a tick after the 60th issues no request
\* and leaves isProcessing false.
C26_AtMostSixtyRequests ==
  /\ [](\A t \in Sessions :
          app.sessions[t].issued = Min(app.sessions[t].attempts, maxAttempts))
  /\ [][\A t \in Sessions :
          (/\ app.sessions[t].attempts >= maxAttempts
           /\ app'.sessions[t].attempts > app.sessions[t].attempts)
          => app'.requests = app.requests /\ ~app'.isProcessing]_vars

\* A session ticked 62 times, issued 60 requests, and isProcessing is false.
C26_Witness ==
  \E t \in Sessions :
    /\ app.sessions[t].attempts = maxAttempts + 2
    /\ app.sessions[t].issued = maxAttempts
    /\ ~app.isProcessing

\* C27: isProcessing, once true, eventually becomes false when timers keep
\* firing, requests keep settling and React keeps rendering.
C27_ProcessingEnds == app.isProcessing ~> ~app.isProcessing

\* C28: a click on the upload button calls onUpload at most once, and only
\* with a file of non-zero size while isProcessing is false and no earlier
\* upload is under way.
C28_NoSecondUploadWhileProcessing ==
  \A i \in 1..Len(app.submits) :
    /\ app.submits[i].calls <= 1
    /\ app.submits[i].calls = 1 =>
         /\ app.submits[i].file # NoFile
         /\ app.submits[i].file.size # 0
         /\ ~app.submits[i].processing
         /\ ~app.submits[i].uploading

\* C29: when no request is in flight and the latest upload or history
\* click was answered, currentDocument is that answer.
C29_LatestRequestShown ==
  (Committed /\ app.requests = {} /\ app.lastSeq > 0 /\ app.okSeq = app.lastSeq)
    => app.currentDocument.seq = app.lastSeq

\* C30: the displayed resultsImageUrl, when it is a blob: URL, has not been
\* revoked.
C30_DisplayedBlobNotRevoked ==
  StartsWithBlob(app.resultsImageUrl) => app.resultsImageUrl.id \notin app.revoked

====
